---- MODULE Spec2Model ----
(***************************************************************************)
(* Security-access session of the GM key tools: the SerialService command  *)
(* queue (ELM327 over Web Serial), the seed/key state of SerialService and *)
(* J2534Service, the SecurityAccessManager lockout record, the ISO-TP      *)
(* sender, the UDS response parser and the 16-bit GMLAN key engine.        *)
(*                                                                         *)
(* Time is the value of Date.now() in milliseconds.  Bytes are naturals in *)
(* 0..255, hexadecimal text is a sequence of nibbles 0..15.                *)
(***************************************************************************)
EXTENDS Integers, Sequences, FiniteSets, TLC

(***************************************************************************)
(* Bounds of the model.                                                    *)
(***************************************************************************)
\* commands (send() calls / J2534 requests) accepted in one run
MaxCmds == 3
\* last value of the clock
MaxTime == 10001
\* lines that may wait in the read buffer before a prompt arrives
MaxBuf == 1
\* failed attempts the lockout record counts before the model stops counting
MaxFails == 3

(***************************************************************************)
(* Program constants.                                                      *)
(***************************************************************************)
SEED_TIMEOUT_MS == 10000
defaultTimeout == 5000
heartbeatTimeout == 1000
SECURITY_ACCESS == 39
TESTER_PRESENT == 62
DIAGNOSTIC_SESSION_CONTROL == 16
NEGATIVE_RESPONSE == 127
POSITIVE_OFFSET == 64
SECURITY_ACCESS_DENIED == 51
INVALID_KEY == 53
EXCEEDED_NUMBER_OF_ATTEMPTS == 54
REQUIRED_TIME_DELAY_NOT_EXPIRED == 55
RESPONSE_PENDING == 120
P2_STAR_SERVER_MAX == 5000
P2_STAR_TIMEOUT_MS == 5000
NRC_RESPONSE_PENDING == 120
j2534Timeout == 2000
SECURITY_LOCKOUT_DURATION == 10000
MAX_ATTEMPTS == 3

\* lastSeed = null
NoSeed == <<-1>>
\* level argument left out by the caller
Undefined == 0
\* nothing was received
NoData == <<>>
\* no pure function applied yet
NoCall == [fn |-> "none"]
\* nothing transmitted yet
NoTx == [sid |-> -1]
\* filtersKey = ""
NoKey == [empty |-> TRUE, text |-> <<>>]
\* currentTimeoutId = null
NoTimer == [cmd |-> 0, deadline |-> 0]

(***************************************************************************)
(* Inputs.                                                                 *)
(***************************************************************************)
\* security levels a caller passes (2 is the key level of seed level 1)
Levels == {1, 2, 3}
\* key arguments: a 2-byte GMLAN key and a 5-byte SA015 key
Key2 == <<50, 87>>
Key5 == <<15, 131, 35, 235, 104>>
Keys == {Key2, Key5}
\* how far the clock moves between two events
TimeSteps == {5000, 5001}

(***************************************************************************)
(* Hexadecimal text <-> bytes                                              *)
(***************************************************************************)
RECURSIVE formatBytes(_)
formatBytes(bytes) ==
  IF bytes = <<>> THEN <<>>
  ELSE <<Head(bytes) \div 16, Head(bytes) % 16>> \o formatBytes(Tail(bytes))

parseHex(hex) ==
  [i \in 1..(Len(hex) \div 2) |-> hex[2 * i - 1] * 16 + hex[2 * i]]

\* one line of adapter output: hexadecimal digits, or an adapter message
HexLine(bytes) == [t |-> "hex", v |-> formatBytes(bytes)]
TextLine(s) == [t |-> "text", v |-> s]

(***************************************************************************)
(* UDSMessage                                                              *)
(***************************************************************************)
normalizeSeedLevel(level) == IF level % 2 = 0 THEN level - 1 ELSE level

isResponsePending(frame, expectedSid) ==
  /\ Len(frame) >= 3
  /\ frame[1] = NEGATIVE_RESPONSE
  /\ frame[3] = RESPONSE_PENDING
  /\ frame[2] = expectedSid

buildSeedRequest(level) == <<SECURITY_ACCESS, level>>

buildKeyRequest(level, key) == <<SECURITY_ACCESS, level + 1>> \o key

\* a parseResponse that compares the service identifier first
parseResponseSidFirst(response, expectedSid) ==
  IF Len(response) < 1 THEN [kind |-> "empty"]
  ELSE IF response[1] = expectedSid + POSITIVE_OFFSET
    THEN [kind |-> "ok", value |-> response]
  ELSE IF response[1] = NEGATIVE_RESPONSE
    THEN IF Len(response) >= 3
           THEN [kind |-> "nrc", sid |-> response[2], nrc |-> response[3]]
           ELSE [kind |-> "malformed"]
  ELSE [kind |-> "unexpectedSid"]

parseResponse(response, expectedSid) ==
  IF Len(response) < 1 THEN [kind |-> "empty"]
  ELSE IF response[1] = NEGATIVE_RESPONSE
    THEN IF Len(response) >= 3
           THEN [kind |-> "nrc", sid |-> response[2], nrc |-> response[3]]
           ELSE [kind |-> "malformed"]
  ELSE IF response[1] # expectedSid + POSITIVE_OFFSET
    THEN [kind |-> "unexpectedSid"]
  ELSE [kind |-> "ok", value |-> response]

\* a parseSecuritySeedResponse that takes the seed of any level
parseSecuritySeedResponseAnyLevel(response, level) ==
  LET parsed == parseResponse(response, SECURITY_ACCESS) IN
  IF parsed.kind # "ok" THEN parsed
  ELSE IF Len(response) < 2 THEN [kind |-> "tooShort"]
  ELSE [kind |-> "ok", seed |-> SubSeq(response, 3, Len(response))]

parseSecuritySeedResponse(response, level) ==
  LET parsed == parseResponse(response, SECURITY_ACCESS) IN
  IF parsed.kind # "ok" THEN parsed
  ELSE IF Len(response) < 2 THEN [kind |-> "tooShort"]
  ELSE IF response[2] # level THEN [kind |-> "levelMismatch"]
  ELSE [kind |-> "ok", seed |-> SubSeq(response, 3, Len(response))]

parseSecurityKeyResponse(response, level) ==
  LET parsed == parseResponse(response, SECURITY_ACCESS) IN
  IF parsed.kind # "ok" THEN parsed
  ELSE [kind |-> "ok",
        accepted |-> Len(response) >= 2 /\ response[2] = level + 1]

(***************************************************************************)
(* UDSNegativeResponseError                                                *)
(***************************************************************************)
BUSY_REPEAT_REQUEST == 33
CONDITIONS_NOT_CORRECT == 34

isSecurityError(nrc) ==
  \/ nrc = SECURITY_ACCESS_DENIED
  \/ nrc = INVALID_KEY
  \/ nrc = EXCEEDED_NUMBER_OF_ATTEMPTS
  \/ nrc = REQUIRED_TIME_DELAY_NOT_EXPIRED

isRetryable(nrc) ==
  \/ nrc = BUSY_REPEAT_REQUEST
  \/ nrc = RESPONSE_PENDING
  \/ nrc = CONDITIONS_NOT_CORRECT

\* an isLockedOut that counts a rejected key as a lockout
isLockedOutOnInvalidKey(nrc) ==
  \/ nrc = INVALID_KEY
  \/ nrc = EXCEEDED_NUMBER_OF_ATTEMPTS
  \/ nrc = REQUIRED_TIME_DELAY_NOT_EXPIRED

isLockedOut(nrc) ==
  \/ nrc = EXCEEDED_NUMBER_OF_ATTEMPTS
  \/ nrc = REQUIRED_TIME_DELAY_NOT_EXPIRED

(***************************************************************************)
(* GMLANEngine: the 16-bit seed/key algorithm.  A table is a sequence of   *)
(* bytes, table[idx] of the code being table[idx + 1] here.  A number      *)
(* argument is a record: the integer v, or v + 0.5 when `half` is set.     *)
(***************************************************************************)
Whole(v) == [v |-> v, half |-> FALSE]
Half(v) == [v |-> v, half |-> TRUE]

RECURSIVE BitAnd(_, _)
BitAnd(a, b) ==
  IF a = 0 \/ b = 0 THEN 0
  ELSE (a % 2) * (b % 2) + 2 * BitAnd(a \div 2, b \div 2)

RECURSIVE BitOr(_, _)
BitOr(a, b) ==
  IF a = 0 THEN b
  ELSE IF b = 0 THEN a
  ELSE (IF a % 2 = 1 \/ b % 2 = 1 THEN 1 ELSE 0)
       + 2 * BitOr(a \div 2, b \div 2)

\* a W that keeps the bits above the low 16
WKeepsCarry(val) == val

\* val & 0xffff: the low 16 bits of the two's complement of val
W(val) == val % 65536

\* ~val of a 32-bit integer
Not(val) == -val - 1

op_05(val) == W(BitOr(val * 256, val \div 256))

op_14(val, hh, ll) == W(val + BitOr(hh * 256, ll))

op_2a(val, hh, ll) ==
  LET new_val == W(Not(val)) IN
  IF hh < ll THEN W(new_val + 1) ELSE new_val

op_37(val, hh, ll) == W(BitAnd(val, BitOr(ll * 256, hh)))

op_4c(val, hh, ll) ==
  LET shift == hh % 16 IN
  IF shift = 0 THEN val
  ELSE W(BitOr(val * (2 ^ shift), val \div (2 ^ (16 - shift))))

op_52(val, hh, ll) == W(BitOr(BitOr(val, hh), ll * 256))

op_6b(val, hh, ll) ==
  LET shift == ll % 16 IN
  IF shift = 0 THEN val
  ELSE W(BitOr(val \div (2 ^ shift), val * (2 ^ (16 - shift))))

op_75(val, hh, ll) == W(val + BitOr(ll * 256, hh))

op_7e(val, hh, ll) ==
  IF hh >= ll THEN op_14(op_05(val), hh, ll)
  ELSE op_75(op_05(val), hh, ll)

op_98(val, hh, ll) == W(val - BitOr(hh * 256, ll))

op_f8(val, hh, ll) == W(val - BitOr(ll * 256, hh))

\* GMLAN_OPCODES
VALID_OPCODES == {5, 20, 42, 55, 76, 82, 107, 117, 126, 152, 248}

\* the switch of getKey
Execute(code, val, hh, ll) ==
  CASE code = 5 -> op_05(val)
    [] code = 20 -> op_14(val, hh, ll)
    [] code = 42 -> op_2a(val, hh, ll)
    [] code = 55 -> op_37(val, hh, ll)
    [] code = 76 -> op_4c(val, hh, ll)
    [] code = 82 -> op_52(val, hh, ll)
    [] code = 107 -> op_6b(val, hh, ll)
    [] code = 117 -> op_75(val, hh, ll)
    [] code = 126 -> op_7e(val, hh, ll)
    [] code = 152 -> op_98(val, hh, ll)
    [] code = 248 -> op_f8(val, hh, ll)
    [] OTHER -> val

validateSeed(seed) == ~(seed.half \/ seed.v < 0 \/ seed.v > 65535)

getTableFormat(tableLength) ==
  IF tableLength >= 4096 /\ tableLength % 16 = 0
    THEN [stride |-> 16, opCount |-> 5]
    ELSE [stride |-> 13, opCount |-> 4]

\* a validateAlgo that asks for one byte more than the steps
validateAlgoInclusive(algo, tableLength) ==
  IF algo.half \/ algo.v < 0 \/ algo.v > 255 THEN "INVALID_ALGO"
  ELSE IF algo.v # 0
          /\ algo.v * getTableFormat(tableLength).stride
               + getTableFormat(tableLength).opCount * 3 >= tableLength
    THEN "TABLE_BOUNDS"
  ELSE "ok"

\* "ok", or the code of the GMLANError validateAlgo throws
validateAlgo(algo, tableLength) ==
  IF algo.half \/ algo.v < 0 \/ algo.v > 255 THEN "INVALID_ALGO"
  ELSE IF algo.v # 0
          /\ algo.v * getTableFormat(tableLength).stride
               + getTableFormat(tableLength).opCount * 3 > tableLength
    THEN "TABLE_BOUNDS"
  ELSE "ok"

\* the loop of getKey from step i on
RECURSIVE RunOps(_, _, _, _, _)
RunOps(table, idx, i, opCount, seed_word) ==
  IF i >= opCount THEN seed_word
  ELSE LET code == table[idx + 1]
           hh == table[idx + 2]
           ll == table[idx + 3]
       IN IF code = 0 THEN seed_word
          ELSE RunOps(table, idx + 3, i + 1, opCount,
                      Execute(code, seed_word, hh, ll))

getKey(seed, algo, table) ==
  IF ~validateSeed(seed) THEN [kind |-> "INVALID_SEED"]
  ELSE IF validateAlgo(algo, Len(table)) # "ok"
    THEN [kind |-> validateAlgo(algo, Len(table))]
  ELSE IF algo.v = 0 THEN [kind |-> "key", key |-> W(Not(W(seed.v)))]
  ELSE LET f == getTableFormat(Len(table)) IN
       [kind |-> "key",
        key |-> RunOps(table, algo.v * f.stride, 0, f.opCount, W(seed.v))]

\* algo: null
NoAlgo == -1
maxAlgorithms == 256

\* the steps reverseEngineer reports for a match
RECURSIVE Sequence(_, _, _, _)
Sequence(table, idx, step, opCount) ==
  IF step >= opCount \/ table[idx + step * 3 + 1] = 0 THEN <<>>
  ELSE <<[op |-> table[idx + step * 3 + 1], hh |-> table[idx + step * 3 + 2],
          ll |-> table[idx + step * 3 + 3]]>>
       \o Sequence(table, idx, step + 1, opCount)

\* the scan left the table: the break of the loop
Break == -2

\* a scan that looks at the higher identities first
RECURSIVE ScanRangeFromTop(_, _, _, _, _)
ScanRangeFromTop(lo, hi, seed, targetKey, table) ==
  LET f == getTableFormat(Len(table))
      res == getKey(seed, Whole(lo), table)
      mid == (lo + hi) \div 2
      first == ScanRangeFromTop(mid + 1, hi, seed, targetKey, table)
  IN IF lo > hi THEN NoAlgo
     ELSE IF lo = hi
       THEN IF lo * f.stride + f.opCount * 3 > Len(table) THEN NoAlgo
            ELSE IF res.kind = "key" /\ ~targetKey.half
                    /\ res.key = targetKey.v THEN lo
            ELSE NoAlgo
     ELSE IF first # NoAlgo THEN first
     ELSE ScanRangeFromTop(lo, mid, seed, targetKey, table)

\* the loop of reverseEngineer over the identities lo..hi, in order: the
\* first match, Break where the entry leaves the table, NoAlgo for neither.
\* The range is halved so that the evaluation stays shallow.
RECURSIVE ScanRange(_, _, _, _, _)
ScanRange(lo, hi, seed, targetKey, table) ==
  LET f == getTableFormat(Len(table))
      res == getKey(seed, Whole(lo), table)
      mid == (lo + hi) \div 2
      first == ScanRange(lo, mid, seed, targetKey, table)
  IN IF lo > hi THEN NoAlgo
     ELSE IF lo = hi
       THEN IF lo * f.stride + f.opCount * 3 > Len(table) THEN Break
            ELSE IF res.kind = "key" /\ ~targetKey.half
                    /\ res.key = targetKey.v THEN lo
            ELSE NoAlgo
     ELSE IF first # NoAlgo THEN first
     ELSE ScanRange(mid + 1, hi, seed, targetKey, table)

\* what reverseEngineer returns when its loop starts at identity `from`
Scan(from, seed, targetKey, table) ==
  LET f == getTableFormat(Len(table))
      algo == ScanRange(from, maxAlgorithms - 1, seed, targetKey, table)
  IN IF algo \in {NoAlgo, Break} THEN [algo |-> NoAlgo, sequence |-> <<>>]
     ELSE [algo |-> algo,
           sequence |-> Sequence(table, algo * f.stride, 0, f.opCount)]

\* a reverseEngineer that scans from identity 0
reverseEngineerFromZero(seed, targetKey, table) ==
  Scan(0, seed, targetKey, table)

reverseEngineer(seed, targetKey, table) == Scan(1, seed, targetKey, table)

\* the loop of bruteForceAll over the identities lo..hi, in order
RECURSIVE Collect(_, _, _, _)
Collect(lo, hi, seed, table) ==
  LET res == getKey(seed, Whole(lo), table)
      mid == (lo + hi) \div 2
  IN IF lo > hi THEN <<>>
     ELSE IF lo = hi
       THEN IF res.kind = "key" THEN <<[algo |-> lo, key |-> res.key]>>
            ELSE <<>>
     ELSE Collect(lo, mid, seed, table) \o Collect(mid + 1, hi, seed, table)

bruteForceAll(seed, table) ==
  Collect(0, (Len(table) \div getTableFormat(Len(table)).stride) - 1,
          seed, table)

(***************************************************************************)
(* GMLANEngine of packages/core (the engine of the command-line tool).     *)
(***************************************************************************)
validateAlgoCore(algo, tableLength) ==
  IF algo.half \/ algo.v < 0 \/ algo.v > 255 THEN "INVALID_ALGO"
  ELSE IF algo.v # 0 /\ algo.v * 13 + 12 >= tableLength THEN "TABLE_BOUNDS"
  ELSE "ok"

\* the loop of getKey from step i on; validateOpcode comes first
RECURSIVE RunOpsCore(_, _, _, _)
RunOpsCore(table, idx, i, seed_word) ==
  IF i >= 4 THEN [kind |-> "key", key |-> seed_word]
  ELSE LET code == table[idx + 1]
           hh == table[idx + 2]
           ll == table[idx + 3]
       IN IF code \notin VALID_OPCODES THEN [kind |-> "INVALID_OPCODE"]
          ELSE RunOpsCore(table, idx + 3, i + 1,
                          Execute(code, seed_word, hh, ll))

getKeyCore(seed, algo, table) ==
  IF ~validateSeed(seed) THEN [kind |-> "INVALID_SEED"]
  ELSE IF validateAlgoCore(algo, Len(table)) # "ok"
    THEN [kind |-> validateAlgoCore(algo, Len(table))]
  ELSE IF algo.v = 0 THEN [kind |-> "key", key |-> W(Not(W(seed.v)))]
  ELSE RunOpsCore(table, algo.v * 13, 0, W(seed.v))

RECURSIVE CollectCore(_, _, _, _)
CollectCore(lo, hi, seed, table) ==
  LET res == getKeyCore(seed, Whole(lo), table)
      mid == (lo + hi) \div 2
  IN IF lo > hi THEN <<>>
     ELSE IF lo = hi
       THEN IF res.kind = "key" THEN <<[algo |-> lo, key |-> res.key]>>
            ELSE <<>>
     ELSE CollectCore(lo, mid, seed, table)
          \o CollectCore(mid + 1, hi, seed, table)

bruteForceAllCore(seed, table) ==
  CollectCore(1, (Len(table) \div 13) - 1, seed, table)

(***************************************************************************)
(* SA015Engine: the hash chain of the 5-byte key                           *)
(* A blob is held decoded: its prefix, the lengths the parser tests, the   *)
(* 32-byte secret, the two bytes of minSeed, the algorithm identity and    *)
(* whether the trailing digest matches.  A digest is the secret it grew    *)
(* from and the number of times sha256 was applied to it.                  *)
(***************************************************************************)
SA015_PREFIX == {"01", "02", "03"}

Secret(s) == [of |-> s, times |-> 0]

\* CryptoShim.sha256
sha256(data) == [data EXCEPT !.times = @ + 1]

\* CryptoShim.aesEncryptBlock over the block that ends with the seed
aesEncryptBlock(aesKey, block) == [key |-> aesKey, plain |-> block]

Failure(code) == [kind |-> code, hashed |-> <<>>]

\* the checks of the seed and of the blob, up to the hash chain: the error
\* thrown, or the loop about to start with digestBuf = secret and i = 0;
\* hashed lists the values the loop has handed to sha256
deriveKeyFromBlob(blob, seed, algo) ==
  IF ~seed.isUint8Array THEN Failure("INVALID_SEED")
  ELSE IF Len(seed.bytes) # 5 THEN Failure("INVALID_SEED")
  ELSE IF blob.length < 2 THEN Failure("INVALID_PAYLOAD")
  ELSE IF blob.prefix \notin SA015_PREFIX THEN Failure("INVALID_PREFIX")
  ELSE IF blob.length - 2 # 60 THEN Failure("INVALID_PAYLOAD")
  ELSE IF ~blob.base64 THEN Failure("BASE64_DECODE_ERROR")
  ELSE IF blob.rawLength # 44 THEN Failure("INVALID_PAYLOAD")
  ELSE IF ~blob.digestMatches THEN Failure("BLOB_DIGEST_MISMATCH")
  ELSE
    LET minSeed  == BitOr(blob.raw32 * 256, blob.raw33)
        algoId   == BitOr(blob.raw34 * 256, blob.raw35)
        seedTail == seed.bytes[5]
        maxSeed  == 255 - seedTail
    IN  IF algo # algoId THEN Failure("ALGO_MISMATCH")
        ELSE IF minSeed > maxSeed THEN Failure("SEED_FORBIDDEN")
        ELSE [kind |-> "hashing",
              digestBuf |-> Secret(blob.secret),
              i |-> 0,
              iterations |-> maxSeed - minSeed,
              prefix |-> blob.prefix,
              blobAlgoId |-> algoId,
              block |-> [k \in 1..16 |->
                           IF k >= 12 THEN seed.bytes[k - 11] ELSE 255],
              hashed |-> <<>>]

\* an iteration that hashes the secret again instead of the last digest
IterateFromSecret(r) ==
  [r EXCEPT !.digestBuf = sha256(Secret(r.digestBuf.of)),
            !.i = @ + 1,
            !.hashed = Append(@, Secret(r.digestBuf.of))]

\* one iteration of the loop: digestBuf = await CryptoShim.sha256(digestBuf)
Iterate(r) ==
  [r EXCEPT !.digestBuf = sha256(r.digestBuf),
            !.i = @ + 1,
            !.hashed = Append(@, r.digestBuf)]

\* after the loop: the key is the head of the last digest, the mac the
\* head of the encrypted block
Finish(r) ==
  [kind |-> "ok",
   mac |-> aesEncryptBlock(r.digestBuf, r.block),
   iterations |-> r.iterations,
   prefix |-> r.prefix,
   blobAlgoId |-> r.blobAlgoId,
   hashed |-> r.hashed]

\* a blob as the password map of the model holds it
Blob(prefix, minSeed, algoId) ==
  [length |-> 62, prefix |-> prefix, base64 |-> TRUE, rawLength |-> 44,
   secret |-> algoId, raw32 |-> minSeed \div 256, raw33 |-> minSeed % 256,
   raw34 |-> algoId \div 256, raw35 |-> algoId % 256, digestMatches |-> TRUE]

\* the password map: well-formed blobs with the values of minSeed around
\* the ends of the range of the seed's last byte, and one blob for each
\* way a blob can be refused
PASSWORD_MAP ==
  [a \in {} |-> Blob("01", 0, 0)]
  @@ (1 :> Blob("01", 0, 1))
  @@ (2 :> Blob("02", 1, 2))
  @@ (3 :> Blob("03", 127, 3))
  @@ (4 :> Blob("01", 255, 4))
  @@ (5 :> Blob("01", 256, 5))
  @@ (6 :> Blob("02", 65535, 6))
  @@ (7 :> Blob("01", 200, 7))
  @@ (8 :> Blob("01", 3, 9))
  @@ (10 :> [Blob("01", 3, 10) EXCEPT !.digestMatches = FALSE])
  @@ (11 :> Blob("04", 3, 11))
  @@ (12 :> [Blob("01", 3, 12) EXCEPT !.length = 1])
  @@ (13 :> [Blob("01", 3, 13) EXCEPT !.length = 61])
  @@ (14 :> [Blob("01", 3, 14) EXCEPT !.base64 = FALSE])
  @@ (15 :> [Blob("01", 3, 15) EXCEPT !.rawLength = 45])

deriveKey(algo, seed) ==
  IF algo.half \/ algo.v < 0 \/ algo.v > 65535
  THEN Failure("ALGO_NOT_FOUND")
  ELSE IF algo.v \notin DOMAIN PASSWORD_MAP THEN Failure("ALGO_NOT_FOUND")
  ELSE deriveKeyFromBlob(PASSWORD_MAP[algo.v], seed, algo.v)

(***************************************************************************)
(* SerialService: reading the adapter's answer                             *)
(***************************************************************************)
HasText(raw, s) == \E i \in DOMAIN raw : raw[i].t = "text" /\ raw[i].v = s

parseELMResponse(raw) ==
  IF HasText(raw, "NO DATA") THEN [success |-> FALSE, error |-> "NO_DATA"]
  ELSE IF HasText(raw, "CAN ERROR") THEN [success |-> FALSE, error |-> "CAN_ERROR"]
  ELSE IF HasText(raw, "BUFFER FULL") THEN [success |-> FALSE, error |-> "BUFFER_FULL"]
  ELSE IF HasText(raw, "BUS BUSY") THEN [success |-> FALSE, error |-> "BUS_BUSY"]
  ELSE IF HasText(raw, "BUS ERROR") THEN [success |-> FALSE, error |-> "BUS_ERROR"]
  ELSE IF HasText(raw, "?") THEN [success |-> FALSE, error |-> "UNKNOWN_COMMAND"]
  ELSE IF HasText(raw, "STOPPED") THEN [success |-> FALSE, error |-> "STOPPED"]
  ELSE [success |-> TRUE, error |-> "none"]

\* adapter messages hold no frame: "OK" is skipped by name, the others are
\* refused by parseELMResponse before any frame is looked for
RECURSIVE extractUdsFrames(_)
extractUdsFrames(raw) ==
  IF raw = <<>> THEN <<>>
  ELSE LET line == Head(raw)
           rest == extractUdsFrames(Tail(raw))
       IN IF line.t # "hex" THEN rest
          ELSE IF Len(line.v) < 2 \/ Len(line.v) % 2 # 0 THEN rest
          ELSE <<parseHex(line.v)>> \o rest

RECURSIVE selectFrom(_, _, _)
selectFrom(frames, expectedSid, pending) ==
  IF frames = <<>>
    THEN IF pending THEN [kind |-> "pending"] ELSE [kind |-> "none"]
  ELSE LET frame == Head(frames) IN
    IF isResponsePending(frame, expectedSid)
      THEN selectFrom(Tail(frames), expectedSid, TRUE)
    ELSE IF frame[1] = NEGATIVE_RESPONSE
      THEN IF Len(frame) >= 3
             THEN [kind |-> "nrc", sid |-> frame[2], nrc |-> frame[3]]
             ELSE [kind |-> "malformed"]
    ELSE IF frame[1] = expectedSid + POSITIVE_OFFSET
      THEN [kind |-> "frame", frame |-> frame]
    ELSE selectFrom(Tail(frames), expectedSid, pending)

selectUdsFrame(frames, expectedSid) == selectFrom(frames, expectedSid, FALSE)

\* what sendUdsRequest makes of the text that resolved its command
sendUdsRequest(raw, expectedSid) ==
  IF ~parseELMResponse(raw).success \/ raw = <<>>
    THEN [kind |-> "elmError"]
    ELSE selectUdsFrame(extractUdsFrames(raw), expectedSid)

(***************************************************************************)
(* State.  `service` is the HardwareService implementation the application *)
(* runs: the seed/key fields, the connection state and the record of       *)
(* requests are those of that service.                                     *)
(***************************************************************************)
VARIABLES
  service,            \* "serial" (SerialService) or "j2534" (J2534Service)
  now,                \* Date.now()
  state,              \* _state
  heartbeatInterval,  \* TRUE while the heartbeat interval is set
  commandQueue,       \* ids of the queued commands, head first
  isProcessing,
  currentTimeoutId,   \* the timer processBuffer would clear, or NoTimer
  timers,             \* the armed timers of processQueue
  buffer,             \* lines read since the last prompt
  pendingWrites,      \* ids whose writer.write() has not resolved yet
  lastSeed,
  lastSeedTime,
  lastSecurityLevel,
  cmds,               \* every accepted request, by id; see NewCmd and Settle
  txLog,              \* ids in the order their frame was handed to the transport
  thrown,             \* the error raised in this step (a throw, a rejection), or "none"
  sinceSeed,          \* what happened since requestSeed last stored a seed
  rx,                 \* what this step received: the text before a prompt
                      \* (SerialService), the data of a message (J2534Service)
  states,             \* SecurityAccessManager.states
  requestHeader,      \* J2534Service.requestHeader
  responseFilters,    \* J2534Service.responseFilters
  responseIds,        \* J2534Service.responseIds, or NullIds
  addressingMode,     \* J2534Service.addressingMode
  overrides,          \* the calls of withTemporaryRequestHeaderAndFilters
  isoPc,              \* where IsoTpService.send is: "idle", "frame" (in
                      \* sendFrame), "flowControl", "separation", "done",
                      \* "failed"
  isoData,            \* data, the payload of send
  offset,             \* the locals of sendMultiFrame
  sequenceNumber,
  blocksSent,
  blockSize,
  stMin,
  isoLog,             \* the frames handed to sendFrame and the flow controls
                      \* received, in order
  rawListeners,       \* SerialService.rawListeners: the waits listening
  fcTimeout,          \* the timer of waitForFlowControl, or NoTimer
  waits,              \* the promises of waitForFlowControl, by number
  inbound,            \* the ISO-TP frames read from the ECU, in order
  isoReceived,        \* the payloads IsoTpService has handed to its caller
  canAttemptResult,   \* what canAttempt returned last, or NoResult
  call,               \* the pure function applied last and its arguments
  result,             \* what that application returned or threw
  currentHeader,      \* J2534Service.currentHeader
  lastTx,             \* what J2534Service.transmit sent last, or NoTx
  filtersKey,         \* J2534Service.filtersKey
  applies,            \* the calls of applyFilters, in order: what each was
                      \* asked to apply and the device calls it has made
  answered            \* how many of the written commands the adapter has
                      \* answered with a prompt

vars == <<service, now, state, heartbeatInterval,
          commandQueue, isProcessing, currentTimeoutId, timers, buffer,
          pendingWrites, lastSeed, lastSeedTime, lastSecurityLevel, cmds,
          txLog, thrown, sinceSeed, rx, states,
          requestHeader, responseFilters, responseIds, addressingMode,
          overrides, isoPc, isoData, offset, sequenceNumber, blocksSent,
          blockSize, stMin, isoLog, rawListeners, fcTimeout, waits,
          inbound, isoReceived, canAttemptResult, call, result,
          currentHeader, lastTx, filtersKey, applies, answered>>

connVars == <<state, heartbeatInterval>>
queueVars == <<commandQueue, isProcessing, txLog, pendingWrites>>
timerVars == <<currentTimeoutId, timers>>
seedVars == <<lastSeed, lastSeedTime, lastSecurityLevel, sinceSeed>>
addrVars == <<requestHeader, responseFilters, responseIds>>
\* the state of the layers that the hardware operations below leave alone
multiVars == <<offset, sequenceNumber, blocksSent, blockSize, stMin>>
waitVars == <<rawListeners, fcTimeout, waits>>
receiveVars == <<inbound, isoReceived>>
pureVars == <<call, result>>
txVars == <<currentHeader, lastTx>>
filterVars == <<filtersKey, applies>>
isoVars == <<isoPc, isoData, multiVars, isoLog, waitVars, receiveVars>>
\* the layers above SerialService's queue
stackVars == <<addrVars, addressingMode, overrides, isoVars, canAttemptResult, pureVars, txVars, filterVars>>
adapterVars == <<answered>>
layerVars == <<stackVars, adapterVars>>

Range(s) == {s[i] : i \in DOMAIN s}

(***************************************************************************)
(* What the adapter answers.                                               *)
(***************************************************************************)
SeedBytes == <<212, 53>>

\* the frames an ECU answers a security-access request with
EcuFrames ==
  { <<103, 1>> \o SeedBytes,
    <<103, 3>> \o SeedBytes,
    <<103, 2>>,
    <<103, 4>>,
    <<NEGATIVE_RESPONSE, SECURITY_ACCESS, INVALID_KEY>>,
    <<NEGATIVE_RESPONSE, SECURITY_ACCESS, EXCEEDED_NUMBER_OF_ATTEMPTS>> }

PendingFrame == <<NEGATIVE_RESPONSE, SECURITY_ACCESS, RESPONSE_PENDING>>

\* chunks of serial data that end with the prompt ">"
Replies ==
  { <<HexLine(f)>> : f \in EcuFrames } \cup
  { <<HexLine(PendingFrame), HexLine(<<103, 2>>)>>,
    <<TextLine("NO DATA")>>,
    <<TextLine("OK")>>,
    <<>> }

\* chunks of serial data without a prompt
PartialLines == { HexLine(PendingFrame) }

(***************************************************************************)
(* Promises: a command settles once.  Of a settled command the record      *)
(* keeps its kind only.                                                    *)
(***************************************************************************)
NewCmd(kind, level, frame, timeout) ==
  [kind |-> kind, level |-> level, frame |-> frame, timeout |-> timeout,
   outcome |-> "pending"]

Settle(cs, i) ==
  [cs EXCEPT ![i] = [kind |-> cs[i].kind, level |-> 0, frame |-> <<>>,
                     timeout |-> 0, outcome |-> "settled"]]

RECURSIVE RejectAll(_, _)
RejectAll(cs, q) ==
  IF q = <<>> THEN cs ELSE RejectAll(Settle(cs, Head(q)), Tail(q))

Pending(i) == cmds[i].outcome = "pending"

(***************************************************************************)
(* SerialService.processQueue, up to the await of writer.write(): the head *)
(* of queue q is handed to the writer unless a command is being processed, *)
(* the queue is empty or the service is not connected (the writer exists   *)
(* exactly while the service is not disconnected).                         *)
(***************************************************************************)
\* processQueue without its isProcessing check
CanStartWhileProcessing(q, processing, st) == q # <<>> /\ st = "connected"

CanStart(q, processing, st) == ~processing /\ q # <<>> /\ st = "connected"

processQueue(q, processing, st) ==
  /\ commandQueue' = q
  /\ IF CanStart(q, processing, st)
       THEN /\ isProcessing' = TRUE
            /\ txLog' = Append(txLog, Head(q))
            /\ pendingWrites' = Append(pendingWrites, Head(q))
       ELSE /\ isProcessing' = processing
            /\ UNCHANGED <<txLog, pendingWrites>>

\* a timeout that leaves the command at the head of the queue
AfterTimeoutRetry(q) == q

\* the queue after the timer of its head has rejected the head
AfterTimeout(q) == Tail(q)

\* a send() that puts the command first
EnqueueFirst(q, i) == <<i>> \o q

\* where send() puts the command with id i
Enqueue(q, i) == Append(q, i)

(***************************************************************************)
(* SerialService.send: refuses when not connected, else queues the command *)
(* and runs processQueue.                                                  *)
(***************************************************************************)
send(kind, level, frame, timeout) ==
  IF state # "connected"
    THEN /\ thrown' = "NotConnected"
         /\ UNCHANGED <<cmds, queueVars>>
    ELSE /\ Len(cmds) < MaxCmds
         /\ thrown' = "none"
         /\ cmds' = Append(cmds, NewCmd(kind, level, frame, timeout))
         /\ processQueue(Enqueue(commandQueue, Len(cmds) + 1), isProcessing, state)

\* send("10 03"): a raw command of the application
SSend ==
  /\ service = "serial"
  /\ send("raw", Undefined, <<DIAGNOSTIC_SESSION_CONTROL, 3>>, defaultTimeout)
  /\ UNCHANGED <<service, now, connVars, timerVars, buffer, seedVars, states>>
  /\ rx' = NoData
  /\ UNCHANGED layerVars

SStartHeartbeat ==
  /\ service = "serial"
  /\ ~heartbeatInterval
  /\ heartbeatInterval' = TRUE
  /\ thrown' = "none"
  /\ UNCHANGED <<service, now, state, queueVars, timerVars,
                 buffer, seedVars, cmds, states>>
  /\ rx' = NoData
  /\ UNCHANGED layerVars

\* one firing of the heartbeat interval
SHeartbeatTick ==
  /\ service = "serial"
  /\ heartbeatInterval
  /\ IF state # "connected"
       THEN /\ heartbeatInterval' = FALSE
            /\ thrown' = "none"
            /\ UNCHANGED <<cmds, queueVars>>
       ELSE /\ send("hb", Undefined, <<TESTER_PRESENT, 128>>, heartbeatTimeout)
            /\ UNCHANGED heartbeatInterval
  /\ UNCHANGED <<service, now, state, timerVars, buffer, seedVars, states>>
  /\ rx' = NoData
  /\ UNCHANGED layerVars

(***************************************************************************)
(* SerialService.requestSeed / sendKey / sendKey5Byte, up to the await of  *)
(* the command's promise.                                                  *)
(***************************************************************************)
SRequestSeed(level) ==
  /\ service = "serial"
  /\ LET normalizedLevel == normalizeSeedLevel(level) IN
       send("seed", normalizedLevel, buildSeedRequest(normalizedLevel),
            defaultTimeout)
  /\ UNCHANGED <<service, now, connVars, timerVars, buffer, seedVars, states>>
  /\ rx' = NoData
  /\ UNCHANGED layerVars

\* validateKeyRequest without its check of the seed's age
validateKeyRequestNoExpiry(level) ==
  IF lastSeed = NoSeed
    THEN [error |-> "NoSeedPending", discard |-> FALSE, seedLevel |-> 0]
  ELSE IF normalizeSeedLevel(level) # lastSecurityLevel
    THEN [error |-> "LevelMismatch", discard |-> FALSE, seedLevel |-> 0]
  ELSE [error |-> "none", discard |-> FALSE,
        seedLevel |-> normalizeSeedLevel(level)]

validateKeyRequest(level) ==
  IF lastSeed = NoSeed
    THEN [error |-> "NoSeedPending", discard |-> FALSE, seedLevel |-> 0]
  ELSE IF now - lastSeedTime > SEED_TIMEOUT_MS
    THEN [error |-> "SeedExpired", discard |-> TRUE, seedLevel |-> 0]
  ELSE LET seedLevel == IF level # Undefined THEN normalizeSeedLevel(level)
                        ELSE lastSecurityLevel
       IN IF seedLevel # lastSecurityLevel
            THEN [error |-> "LevelMismatch", discard |-> FALSE, seedLevel |-> 0]
            ELSE [error |-> "none", discard |-> FALSE, seedLevel |-> seedLevel]

\* sendKey expects 2 key bytes (4 hex characters), sendKey5Byte 5 (10)
SerialSendKey(level, key, keyBytes) ==
  /\ service = "serial"
  /\ LET v == validateKeyRequest(level) IN
       IF v.error # "none"
         THEN /\ thrown' = v.error
              /\ lastSeed' = IF v.discard THEN NoSeed ELSE lastSeed
              /\ sinceSeed' = IF v.discard THEN sinceSeed \cup {"expired"}
                              ELSE sinceSeed
              /\ UNCHANGED <<cmds, queueVars>>
       ELSE IF Len(key) # keyBytes
         THEN /\ thrown' = "KeyLength"
              /\ UNCHANGED <<cmds, queueVars, lastSeed, sinceSeed>>
       ELSE /\ send("key", v.seedLevel, buildKeyRequest(v.seedLevel, key),
                    defaultTimeout)
            /\ UNCHANGED <<lastSeed, sinceSeed>>
  /\ UNCHANGED <<service, now, connVars, timerVars, buffer, lastSeedTime,
                 lastSecurityLevel, states>>
  /\ rx' = NoData
  /\ UNCHANGED layerVars

SSendKey(level, key) == SerialSendKey(level, key, 2)

SSendKey5Byte(level, key) == SerialSendKey(level, key, 5)

(***************************************************************************)
(* What the caller awaiting a command does when it resolves with text raw: *)
(* the error it throws ("none": it returns) and the seed it parsed.        *)
(***************************************************************************)
SerialCompletion(c, raw) ==
  IF c.kind \notin {"seed", "key"} THEN [error |-> "none", seed |-> NoSeed]
  ELSE LET r == sendUdsRequest(raw, SECURITY_ACCESS) IN
    IF r.kind = "nrc" THEN [error |-> "NegativeResponse", seed |-> NoSeed]
    ELSE IF r.kind # "frame" THEN [error |-> "UdsFailed", seed |-> NoSeed]
    ELSE IF c.kind = "seed"
      THEN LET p == parseSecuritySeedResponse(r.frame, c.level) IN
           IF p.kind = "ok" THEN [error |-> "none", seed |-> p.seed]
           ELSE [error |-> "SeedResponse", seed |-> NoSeed]
    ELSE LET k == parseSecurityKeyResponse(r.frame, c.level) IN
         IF k.kind = "ok" /\ k.accepted THEN [error |-> "none", seed |-> NoSeed]
         ELSE [error |-> "KeyRejected", seed |-> NoSeed]

\* a sendKey that never clears lastSeed
SeedKept(seed, error) == seed

\* lastSeed after a sendKey whose request ended with `error`
SeedAfterKey(seed, error) == IF error = "none" THEN NoSeed ELSE seed

\* requestSeed stores the seed it parsed; sendKey clears it when accepted
Continue(c, done) ==
  IF c.kind = "seed" /\ done.error = "none"
    THEN /\ lastSecurityLevel' = c.level
         /\ lastSeedTime' = now
         /\ lastSeed' = done.seed
         /\ sinceSeed' = {}
  ELSE IF c.kind = "key"
    THEN /\ lastSeed' = SeedAfterKey(lastSeed, done.error)
         /\ sinceSeed' = sinceSeed \cup
              (IF done.error = "none" THEN {"accepted"}
               ELSE IF done.error \in {"NegativeResponse", "KeyRejected"}
                 THEN {"rejected"}
               ELSE {})
         /\ UNCHANGED <<lastSeedTime, lastSecurityLevel>>
  ELSE UNCHANGED seedVars

(***************************************************************************)
(* SerialService.processQueue, after writer.write() has resolved: the      *)
(* timer of the command is armed.  (writer.write() is taken to resolve.)   *)
(***************************************************************************)
Deadline(c) == now + c.timeout

SWriteDone ==
  /\ service = "serial"
  /\ pendingWrites # <<>>
  /\ LET i == Head(pendingWrites)
         t == [cmd |-> i, deadline |-> Deadline(cmds[i])]
     IN /\ timers' = timers \cup {t}
        /\ currentTimeoutId' = t
  /\ pendingWrites' = Tail(pendingWrites)
  /\ thrown' = "none"
  /\ UNCHANGED <<service, now, connVars, commandQueue, isProcessing, txLog,
                 buffer, seedVars, cmds, states>>
  /\ rx' = NoData
  /\ UNCHANGED layerVars

\* the callback of a timer armed by processQueue
STimerFire(t) ==
  /\ service = "serial"
  /\ t \in timers
  /\ now >= t.deadline
  /\ timers' = timers \ {t}
  /\ IF isProcessing /\ commandQueue # <<>> /\ Head(commandQueue) = t.cmd
       THEN /\ cmds' = Settle(cmds, t.cmd)
            /\ thrown' = "Timeout"
            /\ currentTimeoutId' = NoTimer
            /\ processQueue(AfterTimeout(commandQueue), FALSE, state)
       ELSE /\ thrown' = "none"
            /\ UNCHANGED <<cmds, currentTimeoutId, queueVars>>
  /\ UNCHANGED <<service, now, connVars, buffer, seedVars, states>>
  /\ rx' = NoData
  /\ UNCHANGED layerVars

(***************************************************************************)
(* SerialService.startReadLoop: a chunk of data without, or with, a prompt *)
(***************************************************************************)
SData(line) ==
  /\ service = "serial"
  /\ state = "connected"
  /\ Len(buffer) < MaxBuf
  /\ buffer' = Append(buffer, line)
  /\ thrown' = "none"
  /\ UNCHANGED <<service, now, connVars, queueVars, timerVars, seedVars, cmds,
                 states>>
  /\ rx' = NoData
  /\ UNCHANGED layerVars

\* the chunk holds ">": processBuffer
SPrompt(reply) ==
  /\ service = "serial"
  /\ state = "connected"
  /\ buffer' = <<>>
  /\ timers' = timers \ {currentTimeoutId}
  /\ currentTimeoutId' = NoTimer
  /\ IF commandQueue # <<>> /\ isProcessing
       THEN LET i == Head(commandQueue)
                done == SerialCompletion(cmds[i], buffer \o reply)
            IN /\ cmds' = Settle(cmds, i)
               /\ thrown' = done.error
               /\ Continue(cmds[i], done)
               /\ processQueue(Tail(commandQueue), FALSE, state)
       ELSE /\ thrown' = "none"
            /\ UNCHANGED <<cmds, seedVars>>
            /\ processQueue(commandQueue, isProcessing, state)
  /\ UNCHANGED <<service, now, connVars, states>>
  /\ rx' = buffer \o reply
  /\ UNCHANGED stackVars

SClearQueue ==
  /\ service = "serial"
  /\ cmds' = RejectAll(cmds, commandQueue)
  /\ commandQueue' = <<>>
  /\ isProcessing' = FALSE
  /\ thrown' = IF commandQueue # <<>> THEN "QueueCleared" ELSE "none"
  /\ UNCHANGED <<service, now, connVars, txLog, pendingWrites, timerVars,
                 buffer, seedVars, states>>
  /\ rx' = NoData
  /\ UNCHANGED layerVars

(***************************************************************************)
(* The adapter answers the commands written to it one by one, in the order *)
(* they were written, and ends each answer with a prompt.  The answer that *)
(* arrives next is the one to command txLog[answered + 1].                 *)
(***************************************************************************)
Answerable == answered < Len(txLog) - Len(pendingWrites)

\* startReadLoop reads the rest of an answer, up to its prompt
SAnswer(reply) ==
  /\ Answerable
  /\ answered' = answered + 1
  /\ SPrompt(reply)

(***************************************************************************)
(* SerialService.connect / disconnect and the read loop's error handling   *)
(***************************************************************************)
disconnect ==
  /\ heartbeatInterval' = FALSE
  /\ cmds' = RejectAll(cmds, commandQueue)
  /\ thrown' = IF commandQueue # <<>> THEN "Disconnected" ELSE "none"
  /\ commandQueue' = <<>>
  /\ buffer' = <<>>
  /\ state' = "disconnected"
  /\ sinceSeed' = sinceSeed \cup {"disconnected"}
  /\ UNCHANGED <<isProcessing, txLog, pendingWrites, timerVars, lastSeed,
                 lastSeedTime, lastSecurityLevel>>

SDisconnect ==
  /\ service = "serial"
  /\ disconnect
  /\ UNCHANGED <<service, now, states>>
  /\ rx' = NoData
  /\ UNCHANGED layerVars

\* connect() of a disconnected service; the user picks a port and it opens
SConnect ==
  /\ service = "serial"
  /\ state = "disconnected"
  /\ state' = "connected"
  /\ thrown' = "none"
  /\ UNCHANGED <<service, now, heartbeatInterval, queueVars, timerVars, buffer,
                 seedVars, cmds, states>>
  /\ rx' = NoData
  /\ UNCHANGED layerVars

\* reader.read() throws
SReadError ==
  /\ service = "serial"
  /\ state = "connected"
  /\ state' = "error"
  /\ thrown' = "none"
  /\ UNCHANGED <<service, now, heartbeatInterval, queueVars,
                 timerVars, buffer, seedVars, cmds, states>>
  /\ rx' = NoData
  /\ UNCHANGED layerVars

\* attemptReconnect returns `reconnected` (false also once maxRetries attempts
\* were made); the read loop calls disconnect() when it is false
SReconnect(reconnected) ==
  /\ service = "serial"
  /\ state = "error"
  /\ IF reconnected
       THEN /\ state' = "connected"
            /\ thrown' = "none"
            /\ UNCHANGED <<heartbeatInterval, cmds, queueVars, timerVars,
                           buffer, seedVars>>
       ELSE disconnect
  /\ UNCHANGED <<service, now, states>>
  /\ rx' = NoData
  /\ UNCHANGED layerVars

(***************************************************************************)
(* J2534Service.  A request is transmitted by the call itself (transmit),  *)
(* then pollResponses reads messages until one is an answer or its time is *)
(* up; `timers` holds startTime + timeout of each running pollResponses.   *)
(* The backend behind invoke() has a channel exactly while the service is  *)
(* connected: transmit fails without one.                                  *)
(***************************************************************************)
\* the timeouts a caller passes to send(command, timeout)
J2534Timeouts == {j2534Timeout, 6000}

transmitFor(kind, level, frame, timeout) ==
  IF state # "connected"
    THEN /\ thrown' = "TransportError"
         /\ UNCHANGED <<cmds, txLog, timers>>
    ELSE /\ Len(cmds) < MaxCmds
         /\ thrown' = "none"
         /\ cmds' = Append(cmds, NewCmd(kind, level, frame, timeout))
         /\ txLog' = Append(txLog, Len(cmds) + 1)
         /\ timers' = timers \cup
              {[cmd |-> Len(cmds) + 1, deadline |-> now + timeout]}

\* a request sent with the default timeout of send()
transmit(kind, level, frame) == transmitFor(kind, level, frame, j2534Timeout)

\* send("10 03", timeout): a raw command of the application
JSend(timeout) ==
  /\ service = "j2534"
  /\ transmitFor("raw", Undefined, <<DIAGNOSTIC_SESSION_CONTROL, 3>>, timeout)
  /\ UNCHANGED <<service, now, connVars, commandQueue, isProcessing,
                 pendingWrites, currentTimeoutId, buffer, seedVars, states>>
  /\ rx' = NoData
  /\ UNCHANGED layerVars

JRequestSeed(level) ==
  /\ service = "j2534"
  /\ LET normalizedLevel == normalizeSeedLevel(level) IN
       transmit("seed", normalizedLevel, buildSeedRequest(normalizedLevel))
  /\ UNCHANGED <<service, now, connVars, commandQueue, isProcessing,
                 pendingWrites, currentTimeoutId, buffer, seedVars, states>>
  /\ rx' = NoData
  /\ UNCHANGED layerVars

\* validateKeyRequest that already refuses a seed of exactly SEED_TIMEOUT_MS
validateKeyRequestJ2534Early ==
  IF lastSeed = NoSeed THEN [error |-> "NoSeedPending", discard |-> FALSE]
  ELSE IF now - lastSeedTime >= SEED_TIMEOUT_MS
    THEN [error |-> "SeedExpired", discard |-> TRUE]
  ELSE [error |-> "none", discard |-> FALSE]

validateKeyRequestJ2534 ==
  IF lastSeed = NoSeed THEN [error |-> "NoSeedPending", discard |-> FALSE]
  ELSE IF now - lastSeedTime > SEED_TIMEOUT_MS
    THEN [error |-> "SeedExpired", discard |-> TRUE]
  ELSE [error |-> "none", discard |-> FALSE]

\* sendKey and sendKey5Byte of J2534Service have the same body
J2534SendKey(level, key) ==
  /\ service = "j2534"
  /\ LET v == validateKeyRequestJ2534
         seedLevel == IF level # Undefined THEN normalizeSeedLevel(level)
                      ELSE lastSecurityLevel
     IN IF v.error # "none"
          THEN /\ thrown' = v.error
               /\ lastSeed' = IF v.discard THEN NoSeed ELSE lastSeed
               /\ sinceSeed' = IF v.discard THEN sinceSeed \cup {"expired"}
                               ELSE sinceSeed
               /\ UNCHANGED <<cmds, txLog, timers>>
        ELSE IF seedLevel # lastSecurityLevel
          THEN /\ thrown' = "LevelMismatch"
               /\ UNCHANGED <<cmds, txLog, timers, lastSeed, sinceSeed>>
        ELSE /\ transmit("key", seedLevel,
                         buildKeyRequest(seedLevel, parseHex(formatBytes(key))))
             /\ UNCHANGED <<lastSeed, sinceSeed>>
  /\ UNCHANGED <<service, now, connVars, commandQueue, isProcessing,
                 pendingWrites, currentTimeoutId, buffer, lastSeedTime,
                 lastSecurityLevel, states>>
  /\ rx' = NoData
  /\ UNCHANGED layerVars

JSendKey(level, key) == J2534SendKey(level, key)

JSendKey5Byte(level, key) == J2534SendKey(level, key)

\* what the caller makes of the message data that pollResponses returned
J2534Completion(c, data) ==
  LET respBytes == parseHex(formatBytes(data)) IN
  IF c.kind = "raw" THEN [error |-> "none", seed |-> NoSeed]
  ELSE IF c.kind = "seed"
    THEN LET p == parseSecuritySeedResponse(respBytes, c.level) IN
         IF p.kind = "ok" THEN [error |-> "none", seed |-> p.seed]
         ELSE IF p.kind = "nrc" THEN [error |-> "NegativeResponse", seed |-> NoSeed]
         ELSE [error |-> "SeedResponse", seed |-> NoSeed]
    ELSE LET k == parseSecurityKeyResponse(respBytes, c.level) IN
         IF k.kind = "nrc" THEN [error |-> "NegativeResponse", seed |-> NoSeed]
         ELSE IF k.kind # "ok" THEN [error |-> "UdsFailed", seed |-> NoSeed]
         ELSE IF k.accepted THEN [error |-> "none", seed |-> NoSeed]
         ELSE [error |-> "KeyRejected", seed |-> NoSeed]

\* pollResponses restarting its wait at the timeout of the request
RestartedDeadline(t) == now + cmds[t.cmd].timeout

\* startTime + timeout of pollResponses after a response-pending message
ExtendedDeadline(t) == now + P2_STAR_TIMEOUT_MS

\* pollResponses of request t.cmd reads a message with this data
JRead(t, data) ==
  /\ service = "j2534"
  /\ state = "connected"
  /\ t \in timers
  /\ now < t.deadline
  /\ IF Len(data) >= 3 /\ data[1] = NEGATIVE_RESPONSE
        /\ data[3] = NRC_RESPONSE_PENDING
       THEN /\ timers' = (timers \ {t}) \cup
                 {[cmd |-> t.cmd, deadline |-> ExtendedDeadline(t)]}
            /\ thrown' = "none"
            /\ UNCHANGED <<cmds, seedVars>>
       ELSE LET done == J2534Completion(cmds[t.cmd], data) IN
            /\ timers' = timers \ {t}
            /\ cmds' = Settle(cmds, t.cmd)
            /\ thrown' = done.error
            /\ Continue(cmds[t.cmd], done)
  /\ UNCHANGED <<service, now, connVars, queueVars, currentTimeoutId, buffer,
                 states>>
  /\ rx' = data
  /\ UNCHANGED layerVars

\* pollResponses of request t.cmd returns no message
JPollTimeout(t) ==
  /\ service = "j2534"
  /\ t \in timers
  /\ now >= t.deadline
  /\ timers' = timers \ {t}
  /\ cmds' = Settle(cmds, t.cmd)
  /\ thrown' = "Timeout"
  /\ UNCHANGED <<service, now, connVars, queueVars, currentTimeoutId, buffer,
                 seedVars, states>>
  /\ rx' = NoData
  /\ UNCHANGED layerVars

\* d ms pass while requests are polled for.  pollResponses reads the clock
\* only as Date.now() - startTime, so the passing of time is kept as the
\* deadlines of the polls coming d nearer to the present
PollSteps == {1000, 4000}

Elapse(d) ==
  /\ service = "j2534"
  /\ \E t \in timers : now < t.deadline
  /\ timers' = { [cmd |-> t.cmd,
                  deadline |-> IF t.deadline - d > now THEN t.deadline - d
                               ELSE now] : t \in timers }
  /\ thrown' = "none"
  /\ UNCHANGED <<service, now, connVars, queueVars, currentTimeoutId, buffer,
                 seedVars, cmds, states>>
  /\ rx' = NoData
  /\ UNCHANGED layerVars

JConnect(opened) ==
  /\ service = "j2534"
  /\ state # "connected"
  /\ state' = IF opened THEN "connected" ELSE "error"
  /\ thrown' = IF opened THEN "none" ELSE "ConnectFailed"
  /\ UNCHANGED <<service, now, heartbeatInterval, queueVars, timerVars, buffer,
                 seedVars, cmds, states>>
  /\ rx' = NoData
  /\ UNCHANGED layerVars

JDisconnect ==
  /\ service = "j2534"
  /\ state' = "disconnected"
  /\ thrown' = "none"
  /\ sinceSeed' = sinceSeed \cup {"disconnected"}
  /\ UNCHANGED <<service, now, heartbeatInterval, queueVars, timerVars, buffer,
                 lastSeed, lastSeedTime, lastSecurityLevel, cmds, states>>
  /\ rx' = NoData
  /\ UNCHANGED layerVars

(***************************************************************************)
(* SecurityAccessManager: the lockout record the application keeps per     *)
(* security level.  `states` maps a level to its SecurityAccessState.      *)
(***************************************************************************)
ManagerLevels == {1}

\* lastAttemptTime of a state that recorded no attempt yet
NoTime == -1

NewState == [unlocked |-> FALSE, failedAttempts |-> 0, lockoutRemaining |-> 0,
             lastAttemptTime |-> NoTime, lastSeed |-> NoSeed]

getState(level) == IF level \in DOMAIN states THEN states[level] ELSE NewState

\* a map that holds one record for all its levels
SetStateShared(level, st) ==
  [l \in DOMAIN states \cup {level} |-> st]

\* states.set(level, st)
SetState(level, st) ==
  [l \in DOMAIN states \cup {level} |-> IF l = level THEN st ELSE states[l]]

\* no call of canAttempt yet
NoResult == [allowed |-> TRUE, waitMs |-> NoTime]

\* a canAttempt that leaves an expired lockout recorded
canAttemptKeepsLockout(level) ==
  LET st == getState(level)
      elapsed == now - (IF st.lastAttemptTime = NoTime THEN 0
                        ELSE st.lastAttemptTime)
      remaining == IF st.lockoutRemaining - elapsed > 0
                     THEN st.lockoutRemaining - elapsed ELSE 0
  IN IF st.lockoutRemaining > 0 /\ remaining > 0
       THEN [allowed |-> FALSE, waitMs |-> remaining, st |-> st]
       ELSE [allowed |-> TRUE, waitMs |-> 0, st |-> st]

canAttempt(level) ==
  LET st == getState(level)
      elapsed == now - (IF st.lastAttemptTime = NoTime THEN 0
                        ELSE st.lastAttemptTime)
      remaining == IF st.lockoutRemaining - elapsed > 0
                     THEN st.lockoutRemaining - elapsed ELSE 0
  IN IF st.lockoutRemaining > 0 /\ remaining > 0
       THEN [allowed |-> FALSE, waitMs |-> remaining, st |-> st]
       ELSE [allowed |-> TRUE, waitMs |-> 0,
             st |-> [st EXCEPT !.lockoutRemaining = 0]]

MCanAttempt(level) ==
  /\ states' = SetState(level, canAttempt(level).st)
  /\ canAttemptResult' = [allowed |-> canAttempt(level).allowed,
                          waitMs |-> canAttempt(level).waitMs]
  /\ thrown' = "none"
  /\ UNCHANGED <<service, now, connVars, queueVars, timerVars, buffer,
                 seedVars, cmds>>
  /\ rx' = NoData
  /\ UNCHANGED <<addrVars, addressingMode, overrides, isoVars, pureVars, adapterVars, txVars, filterVars>>

\* the map after recordSuccess(level)
recordSuccess(level) ==
  SetState(level, [getState(level) EXCEPT !.unlocked = TRUE,
                     !.failedAttempts = 0, !.lockoutRemaining = 0])

MRecordSuccess(level) ==
  /\ states' = recordSuccess(level)
  /\ thrown' = "none"
  /\ UNCHANGED <<service, now, connVars, queueVars, timerVars, buffer,
                 seedVars, cmds>>
  /\ rx' = NoData
  /\ UNCHANGED layerVars

\* the security-classified negative response codes
SecurityNrcs == {SECURITY_ACCESS_DENIED, INVALID_KEY,
                 EXCEEDED_NUMBER_OF_ATTEMPTS, REQUIRED_TIME_DELAY_NOT_EXPIRED}

\* a recordFailure that locks out on every failure
lockoutOnAnyFailure(st, nrc) == SECURITY_LOCKOUT_DURATION

\* lockoutRemaining after recordFailure
lockoutAfterFailure(st, nrc) ==
  IF nrc = EXCEEDED_NUMBER_OF_ATTEMPTS THEN SECURITY_LOCKOUT_DURATION
  ELSE IF nrc = REQUIRED_TIME_DELAY_NOT_EXPIRED THEN P2_STAR_SERVER_MAX
  ELSE st.lockoutRemaining

\* the map after recordFailure(level, nrc)
recordFailure(level, nrc) ==
  LET st == getState(level) IN
  SetState(level,
    [st EXCEPT !.failedAttempts = st.failedAttempts + 1,
               !.lastAttemptTime = now,
               !.lockoutRemaining = lockoutAfterFailure(st, nrc)])

MRecordFailure(level, nrc) ==
  /\ getState(level).failedAttempts < MaxFails
  /\ states' = recordFailure(level, nrc)
  /\ thrown' = "none"
  /\ UNCHANGED <<service, now, connVars, queueVars, timerVars, buffer,
                 seedVars, cmds>>
  /\ rx' = NoData
  /\ UNCHANGED layerVars

\* a storeSeed that leaves the time of the last attempt alone
storeSeedOnly(level, seed) ==
  SetState(level, [getState(level) EXCEPT !.lastSeed = seed])

\* the map after storeSeed(level, seed)
storeSeed(level, seed) ==
  SetState(level, [getState(level) EXCEPT !.lastSeed = seed,
                                          !.lastAttemptTime = now])

\* states.delete(level)
reset(level) == [l \in DOMAIN states \ {level} |-> states[l]]

\* states.clear()
resetAll == <<>>

MReset(level) ==
  /\ states' = reset(level)
  /\ thrown' = "none"
  /\ UNCHANGED <<service, now, connVars, queueVars, timerVars, buffer,
                 seedVars, cmds>>
  /\ rx' = NoData
  /\ UNCHANGED layerVars

MResetAll ==
  /\ states' = resetAll
  /\ thrown' = "none"
  /\ UNCHANGED <<service, now, connVars, queueVars, timerVars, buffer,
                 seedVars, cmds>>
  /\ rx' = NoData
  /\ UNCHANGED layerVars

(***************************************************************************)
(***************************************************************************)
(* A SecurityAccessManager that keeps the records of two levels; `call`    *)
(* names the operation applied last and `result` what canAttempt returned. *)
(***************************************************************************)
RecordLevels == {1, 3}
StoredSeeds == {<<18, 52>>}
RecordNrcs == {INVALID_KEY, EXCEEDED_NUMBER_OF_ATTEMPTS,
               REQUIRED_TIME_DELAY_NOT_EXPIRED}

Op(fn, level, arg) == [fn |-> fn, level |-> level, arg |-> arg]

Manage(c, after, returned) ==
  /\ states' = after
  /\ call' = c
  /\ result' = returned
  /\ thrown' = "none"
  /\ rx' = NoData
  /\ UNCHANGED <<service, now, connVars, queueVars, timerVars, buffer,
                 seedVars, cmds, addrVars, addressingMode, overrides,
                 isoVars, canAttemptResult, txVars, filterVars, adapterVars>>

RCanAttempt(level) ==
  Manage(Op("canAttempt", level, 0), SetState(level, canAttempt(level).st),
         [allowed |-> canAttempt(level).allowed,
          waitMs |-> canAttempt(level).waitMs])

RRecordSuccess(level) ==
  Manage(Op("recordSuccess", level, 0), recordSuccess(level), NoCall)

RRecordFailure(level, nrc) ==
  /\ getState(level).failedAttempts < MaxFails
  /\ Manage(Op("recordFailure", level, nrc), recordFailure(level, nrc), NoCall)

RStoreSeed(level, seed) ==
  Manage(Op("storeSeed", level, seed), storeSeed(level, seed), NoCall)

RReset(level) == Manage(Op("reset", level, 0), reset(level), NoCall)

RResetAll == Manage(Op("resetAll", 0, 0), resetAll, NoCall)

(* J2534Service: the temporary override of the request header and of the   *)
(* response filters.  A call is split where it awaits.                     *)
(***************************************************************************)
MaxOverrides == 2
functionalHeader == 2015
NoResponseId == -1

\* responseIds: number[] | null
NullIds == [null |-> TRUE, ids |-> <<>>]
Ids(seq) == [null |-> FALSE, ids |-> seq]

Mask(id) == IF id > 2047 THEN 536870911 ELSE 2047

\* (id + 8) & mask, for the ids of the model
ResponseIdOf(header) == (header + 8) % (Mask(header) + 1)

FilterFor(responseId) == <<[mask |-> Mask(responseId), pattern |-> responseId]>>

\* setFunctionalResponseRange(0x7e8, 0x7f0)
FunctionalRange == <<[mask |-> 2032, pattern |-> 2024]>>

\* the filters the application sets
FilterInputs == {<<>>, FilterFor(2024), FilterFor(2025)}

\* the response id the callers of the wrapper pass
CallerResponseId ==
  IF addressingMode = "functional" THEN ResponseIdOf(currentHeader)
  ELSE NoResponseId

NoOverride ==
  [stage |-> "idle", header |-> 0, responseId |-> NoResponseId,
   prevHeader |-> 0, prevFilters |-> <<>>, prevIds |-> NullIds,
   returned |-> TRUE, request |-> <<>>]

\* a call of the wrapper holds the temporary values of the fields
InOverride == \E c \in 1..MaxOverrides : overrides[c].stage \in {"filters", "fn"}

\* transmit: the header a request is sent to
txId(bytes) ==
  IF addressingMode = "functional" /\ bytes[1] = SECURITY_ACCESS
  THEN currentHeader
  ELSE requestHeader

\* what transmit hands to send_isotp or send_can, and the addressing then
Transmitted(bytes) ==
  [sid |-> bytes[1], txId |-> txId(bytes), mode |-> addressingMode,
   current |-> currentHeader, wrapped |-> InOverride]

\* the requests the wrapped operations and the application send
Requests == {<<SECURITY_ACCESS, 1>>, <<DIAGNOSTIC_SESSION_CONTROL, 3>>}

\* the call saves the three fields and sets the temporary values; without
\* a response id nothing is awaited and fn, a send of the request, runs
WBegin(c, header, responseId, request) ==
  /\ service = "j2534"
  /\ responseId = CallerResponseId
  /\ overrides[c].stage = "idle"
  /\ \A b \in 1..(c - 1) : overrides[b].stage # "idle"
  /\ overrides' = [overrides EXCEPT ![c] =
       [stage |-> IF responseId # NoResponseId THEN "filters" ELSE "fn",
        header |-> header, responseId |-> responseId,
        prevHeader |-> requestHeader, prevFilters |-> responseFilters,
        prevIds |-> responseIds, returned |-> TRUE, request |-> request]]
  /\ requestHeader' = header
  /\ IF responseId # NoResponseId
       THEN /\ responseFilters' = FilterFor(responseId)
            /\ responseIds' = Ids(<<responseId>>)
       ELSE UNCHANGED <<responseFilters, responseIds>>
  /\ thrown' = "none"
  /\ rx' = NoData
  /\ UNCHANGED <<service, now, connVars, queueVars, timerVars, buffer,
                 seedVars, cmds, states, isoVars, canAttemptResult, pureVars, adapterVars,
                 currentHeader, addressingMode>>
  /\ lastTx' = IF responseId # NoResponseId THEN lastTx
                ELSE Transmitted(request)'

\* applyFilters has resolved: fn is called and sends the request
WApplied(c) ==
  /\ overrides[c].stage = "filters"
  /\ overrides' = [overrides EXCEPT ![c].stage = "fn"]
  /\ thrown' = "none"
  /\ rx' = NoData
  /\ UNCHANGED <<service, now, connVars, queueVars, timerVars, buffer,
                 seedVars, cmds, states, isoVars, canAttemptResult, pureVars, adapterVars,
                 currentHeader, addrVars, addressingMode, filterVars>>
  /\ lastTx' = Transmitted(overrides[c].request)'

\* a finally block that restores only when fn returned
RestoredOnReturn(saved, current, returned) ==
  IF returned THEN saved ELSE current

\* the assignments of the finally block
Restored(saved, current, returned) == saved

\* fn has returned or thrown: the finally block
WFinally(c, returned) ==
  LET o == overrides[c] IN
  /\ o.stage = "fn"
  /\ requestHeader' = Restored(o.prevHeader, requestHeader, returned)
  /\ IF o.responseId # NoResponseId
       THEN /\ responseFilters' =
                 Restored(o.prevFilters, responseFilters, returned)
            /\ responseIds' = Restored(o.prevIds, responseIds, returned)
            /\ overrides' = [overrides EXCEPT ![c].stage = "restoring",
                                              ![c].returned = returned]
            /\ thrown' = "none"
       ELSE /\ UNCHANGED <<responseFilters, responseIds>>
            /\ overrides' = [overrides EXCEPT ![c].stage = "done",
                                              ![c].returned = returned]
            /\ thrown' = IF returned THEN "none" ELSE "Timeout"
  /\ rx' = NoData
  /\ UNCHANGED <<service, now, connVars, queueVars, timerVars, buffer,
                 seedVars, cmds, states, isoVars, canAttemptResult, pureVars, adapterVars,
                 txVars, addressingMode>>

\* applyFilters of the finally block has resolved: the call settles
WSettle(c) ==
  /\ overrides[c].stage = "restoring"
  /\ overrides' = [overrides EXCEPT ![c].stage = "done"]
  /\ thrown' = IF overrides[c].returned THEN "none" ELSE "Timeout"
  /\ rx' = NoData
  /\ UNCHANGED <<service, now, connVars, queueVars, timerVars, buffer,
                 seedVars, cmds, states, isoVars, canAttemptResult, pureVars, adapterVars, txVars, filterVars, addrVars, addressingMode>>

\* setResponseFilters(filters, ids) of the application
JSetResponseFilters(filters) ==
  /\ service = "j2534"
  /\ responseFilters' = filters
  /\ responseIds' = Ids([k \in DOMAIN filters |-> filters[k].pattern])
  /\ thrown' = "none"
  /\ rx' = NoData
  /\ UNCHANGED <<service, now, connVars, queueVars, timerVars, buffer,
                 seedVars, cmds, states, isoVars, canAttemptResult, pureVars, adapterVars,
                 txVars, requestHeader, addressingMode, overrides>>

\* setHeader(headerId), called while addressingMode is mode
setHeader(headerId, mode) ==
  /\ currentHeader' = headerId
  /\ IF headerId = functionalHeader
       THEN /\ addressingMode' = "functional"
            /\ requestHeader' = functionalHeader
            /\ responseIds' = NullIds
            /\ responseFilters' = FunctionalRange
       ELSE /\ addressingMode' = mode
            /\ IF mode = "physical"
                 THEN /\ requestHeader' = headerId
                      /\ responseFilters' = FilterFor(ResponseIdOf(headerId))
                      /\ responseIds' = Ids(<<ResponseIdOf(headerId)>>)
                 ELSE UNCHANGED addrVars

\* setAddressingMode(mode) of the application
JSetAddressingMode(mode) ==
  /\ service = "j2534"
  /\ IF mode = "functional"
       THEN /\ addressingMode' = mode
            /\ requestHeader' = functionalHeader
            /\ responseIds' = NullIds
            /\ responseFilters' = FunctionalRange
            /\ UNCHANGED currentHeader
       ELSE setHeader(currentHeader, mode)
  /\ thrown' = "none"
  /\ rx' = NoData
  /\ UNCHANGED <<service, now, connVars, queueVars, timerVars, buffer,
                 seedVars, cmds, states, isoVars, canAttemptResult, pureVars, adapterVars,
                 lastTx, overrides>>

\* the headers the application selects: the ECM, the BCM, and the
\* functional header
HeaderInputs == {2016, 577, functionalHeader}

\* setHeader(headerId) of the application, or send("ATSH ...")
JSetHeader(headerId) ==
  /\ service = "j2534"
  /\ setHeader(headerId, addressingMode)
  /\ thrown' = "none"
  /\ rx' = NoData
  /\ UNCHANGED <<service, now, connVars, queueVars, timerVars, buffer,
                 seedVars, cmds, states, isoVars, canAttemptResult, pureVars, adapterVars,
                 lastTx, overrides>>

\* send(command) of the application with the bytes of a request: the
\* request is handed to transmit
JSendRaw(bytes) ==
  /\ service = "j2534"
  /\ lastTx' = Transmitted(bytes)
  /\ thrown' = "none"
  /\ rx' = NoData
  /\ UNCHANGED <<service, now, connVars, queueVars, timerVars, buffer,
                 seedVars, cmds, states, isoVars, canAttemptResult, pureVars, adapterVars,
                 currentHeader, addrVars, addressingMode, overrides,
                 filterVars>>

(***************************************************************************)
(* J2534Service.applyFilters: the filter sets pushed to the device         *)
(***************************************************************************)
MaxApplies == 3

\* JSON.stringify(this.responseFilters): a string other than "", the same
\* for two arrays exactly when they hold the same filters in the same order
stringify(filters) == [empty |-> FALSE, text |-> filters]

\* an applyFilters that never finds the key unchanged
NeverSame(key, known) == FALSE

\* if (key === this.filtersKey) return
Same(key, known) == key = known

RxCall(protocol) == [protocol |-> protocol, filters |-> responseFilters]

\* a call of applyFilters on behalf of by (a call of the wrapper, or 0 for
\* the setters), filtersKey being known when it starts: up to the first
\* await; asked is the set it was asked to apply
applyFilters(by, known) ==
  LET key == stringify(responseFilters')
      new == [by |-> by, asked |-> responseFilters', known |-> known,
              calls |-> <<>>, pc |-> "done", failed |-> FALSE]
  IN  /\ Len(applies) < MaxApplies
      /\ IF Same(key, known)
           THEN /\ filtersKey' = known
                /\ applies' = Append(applies, new)
           ELSE /\ filtersKey' = key
                /\ IF responseFilters' = <<>>
                     THEN applies' = Append(applies, new)
                     ELSE applies' = Append(applies,
                            [new EXCEPT !.calls = <<RxCall("can")'>>,
                                        !.pc = "can"])

\* set_rx_filters for can has resolved, and the one for iso15765 is called
\* with the filters of that moment, or it has failed, which ends the call
FCanDone(k, ok) ==
  /\ k \in DOMAIN applies
  /\ applies[k].pc = "can"
  /\ applies' = [applies EXCEPT ![k] =
       IF ok THEN [@ EXCEPT !.calls = Append(@, RxCall("iso15765")),
                            !.pc = "iso"]
             ELSE [@ EXCEPT !.pc = "done", !.failed = TRUE]]
  /\ thrown' = "none"
  /\ rx' = NoData
  /\ UNCHANGED <<service, now, connVars, queueVars, timerVars, buffer,
                 seedVars, cmds, states, isoVars, canAttemptResult, pureVars, adapterVars,
                 txVars, addrVars, addressingMode, overrides, filtersKey>>

\* set_rx_filters for iso15765 has resolved or failed
FIsoDone(k, ok) ==
  /\ k \in DOMAIN applies
  /\ applies[k].pc = "iso"
  /\ applies' = [applies EXCEPT ![k].pc = "done", ![k].failed = ~ok]
  /\ thrown' = "none"
  /\ rx' = NoData
  /\ UNCHANGED <<service, now, connVars, queueVars, timerVars, buffer,
                 seedVars, cmds, states, isoVars, canAttemptResult, pureVars, adapterVars,
                 txVars, addrVars, addressingMode, overrides, filtersKey>>

\* the applyFilters that call c of the wrapper awaits has resolved
Resolved(c) ==
  \A k \in DOMAIN applies : applies[k].by = c => applies[k].pc = "done"

\* setResponseFilters with its applyFilters
FSetResponseFilters(filters) ==
  /\ JSetResponseFilters(filters)
  /\ applyFilters(0, filtersKey)

\* setAddressingMode: setFunctionalResponseRange or setHeader, each of
\* which ends with applyFilters
FSetAddressingMode(mode) ==
  /\ JSetAddressingMode(mode)
  /\ applyFilters(0, filtersKey)

\* the wrapper clears filtersKey before applyFilters when it is given a
\* response id
FWBegin(c, request) ==
  /\ WBegin(c, currentHeader, CallerResponseId, request)
  /\ IF CallerResponseId # NoResponseId
       THEN applyFilters(c, NoKey)
       ELSE UNCHANGED filterVars

FWApplied(c) == Resolved(c) /\ WApplied(c)

FWFinally(c, returned) ==
  /\ WFinally(c, returned)
  /\ IF overrides[c].responseId # NoResponseId
       THEN applyFilters(c, NoKey)
       ELSE UNCHANGED filterVars

FWSettle(c) == Resolved(c) /\ WSettle(c)

(***************************************************************************)
(* IsoTpService: segmentation of a payload into frames.  sendFrame hands   *)
(* a frame to SerialService.send, which resolves or rejects; a chunk of    *)
(* raw data is a string, modelled as the sequence of its characters: a hex *)
(* digit by its value, Blank for white space, Other for any other one.     *)
(***************************************************************************)
MaxLen == 119
paddingByte == 0
IsoTimeout == 1000
Blank == 16
Other == 17

\* the payload of n bytes that the application sends
Payload(n) == [i \in 1..n |-> (3 * i + 1) % 256]

\* the lengths of the payloads
IsoLengths == {0, 1, 7, 8, 13, 14, 20, 27, MaxLen - 1, MaxLen}

\* with the lengths that fill the twelve bits of the first frame
LongLengths == IsoLengths \cup {300, 4095}

HexChars(byte) == <<byte \div 16, byte % 16>>

\* the text "30 BS ST\r"
FcText(bs, st) ==
  <<3, 0, Blank>> \o HexChars(bs) \o <<Blank>> \o HexChars(st) \o <<Blank>>

\* the chunks of raw data the adapter delivers
RawChunks ==
  { FcText(0, 0), FcText(1, 0), FcText(2, 241),
    <<7, 15, Blank, 2, 7, Blank, 7, 8, Blank>>,
    <<0, 1, Blank>> \o FcText(2, 0),
    <<Other>> \o FcText(3, 0) }

\* new Uint8Array(8).fill(paddingByte) with the bytes set at its start
Pad(bytes) == bytes \o [k \in 1..(8 - Len(bytes)) |-> paddingByte]

SingleFrame(data) == Pad(<<Len(data)>> \o data)

FirstFrame(data) ==
  Pad(<<16 + ((Len(data) \div 256) % 16), Len(data) % 256>>
      \o SubSeq(data, 1, 6))

ConsecutiveFrame(data, off, seq) ==
  Pad(<<32 + (seq % 16)>>
      \o SubSeq(data, off + 1, IF off + 7 < Len(data) THEN off + 7
                               ELSE Len(data)))

\* a sequence number that wraps to 1
NextSequenceNumberFrom1(seq) == IF seq = 15 THEN 1 ELSE seq + 1

\* sequenceNumber = (sequenceNumber + 1) & 0x0f
NextSequenceNumber(seq) == (seq + 1) % 16

\* decodeStMin
decodeStMin(val) ==
  IF val <= 127 THEN val
  ELSE IF val >= 241 /\ val <= 249 THEN 1
  ELSE 0

\* a handler that takes the next received data as the flow control
FlowControlInAny(data) == [found |-> TRUE, blockSize |-> 0, stMin |-> 0]

\* the handler of waitForFlowControl: data.replace(/\s+/g, "") and the
\* match of /(?:^|[^0-9A-F])30([0-9A-F]{2})([0-9A-F]{2})/i
FlowControlIn(data) ==
  LET clean == SelectSeq(data, LAMBDA c : c # Blank)
      at == { i \in 1..(Len(clean) - 5) :
                /\ i = 1 \/ clean[i - 1] = Other
                /\ clean[i] = 3 /\ clean[i + 1] = 0
                /\ \A k \in 2..5 : clean[i + k] < 16 }
  IN IF at = {} THEN [found |-> FALSE, blockSize |-> 0, stMin |-> 0]
     ELSE LET i == CHOOSE j \in at : \A k \in at : j <= k
          IN [found |-> TRUE,
              blockSize |-> 16 * clean[i + 2] + clean[i + 3],
              stMin |-> 16 * clean[i + 4] + clean[i + 5]]

Tx(frame) == [t |-> "tx", frame |-> frame]
Fc == [t |-> "fc", frame |-> <<>>]

\* a cleanup that leaves the listener registered
cleanupKeepsListener(id, ls) == ls

\* cleanup of waitForFlowControl: removeRawListener(handler)
cleanup(id, ls) == ls \ {id}

\* waitForFlowControl: a new promise, its timer and its listener
StartWait(ws, ls) ==
  /\ waits' = Append(ws, "waiting")
  /\ rawListeners' = ls \cup {Len(ws) + 1}
  /\ fcTimeout' = [cmd |-> Len(ws) + 1, deadline |-> now + IsoTimeout]

\* a loop that asks for flow control after every block but the first
NeedsFlowControlLate(bs, sent) == bs > 0 /\ sent = bs + 1

\* the test at the head of the loop of sendMultiFrame
NeedsFlowControl(bs, sent) == bs > 0 /\ sent = bs

\* the loop of sendMultiFrame, entered with these values of the locals
Loop(off, seq, sent, bs, st, log, ws, ls) ==
  /\ offset' = off /\ sequenceNumber' = seq
  /\ blockSize' = bs /\ stMin' = st
  /\ IF off < Len(isoData)
       THEN IF NeedsFlowControl(bs, sent)
              THEN /\ isoPc' = "flowControl"
                   /\ StartWait(ws, ls)
                   /\ blocksSent' = sent
                   /\ isoLog' = log
              ELSE /\ isoPc' = "frame"
                   /\ isoLog' = Append(log, Tx(ConsecutiveFrame(isoData, off, seq)))
                   /\ blocksSent' = sent
                   /\ waits' = ws /\ rawListeners' = ls
                   /\ fcTimeout' = NoTimer
       ELSE /\ isoPc' = "done"
            /\ isoLog' = log
            /\ blocksSent' = sent
            /\ waits' = ws /\ rawListeners' = ls
            /\ fcTimeout' = NoTimer

hwVars == <<service, now, connVars, queueVars, timerVars, buffer, seedVars,
            cmds, states, addrVars, addressingMode, overrides, receiveVars,
            canAttemptResult, pureVars, adapterVars, txVars, filterVars>>

\* IsoTpService.send(data), up to the first sendFrame
IsoSend(n) ==
  /\ service = "serial"
  /\ isoPc = "idle"
  /\ isoData' = Payload(n)
  /\ isoPc' = "frame"
  /\ isoLog' = <<Tx(IF n <= 7 THEN SingleFrame(Payload(n))
                   ELSE FirstFrame(Payload(n)))>>
  /\ offset' = IF n <= 7 THEN 0 ELSE 6
  /\ UNCHANGED <<sequenceNumber, blocksSent, blockSize, stMin, waitVars>>
  /\ thrown' = "none"
  /\ rx' = NoData
  /\ UNCHANGED hwVars

\* the frame in sendFrame
FrameInFlight == isoLog[Len(isoLog)].frame

\* serial.send of sendFrame resolves (sent) or rejects
IsoFrameDone(sent) ==
  /\ isoPc = "frame"
  /\ IF ~sent
       THEN /\ isoPc' = "failed"
            /\ thrown' = "SendFailed"
            /\ UNCHANGED <<multiVars, isoLog, waitVars>>
       ELSE /\ thrown' = "none"
            /\ CASE FrameInFlight[1] \div 16 = 0 ->
                      /\ isoPc' = "done"
                      /\ UNCHANGED <<multiVars, isoLog, waitVars>>
                 [] FrameInFlight[1] \div 16 = 1 ->
                      /\ isoPc' = "flowControl"
                      /\ StartWait(waits, rawListeners)
                      /\ UNCHANGED <<multiVars, isoLog>>
                 [] OTHER ->
                      IF stMin > 0
                        THEN /\ isoPc' = "separation"
                             /\ blocksSent' = blocksSent + 1
                             /\ offset' = offset + 7
                             /\ sequenceNumber' =
                                  NextSequenceNumber(sequenceNumber)
                             /\ UNCHANGED <<blockSize, stMin, isoLog, waitVars>>
                        ELSE Loop(offset + 7,
                                  NextSequenceNumber(sequenceNumber),
                                  blocksSent + 1, blockSize, stMin, isoLog,
                                  waits, rawListeners)
  /\ UNCHANGED isoData
  /\ rx' = NoData
  /\ UNCHANGED hwVars

\* setTimeout(r, stMin) of the loop has fired; the clock of the model does
\* not resolve the few milliseconds of stMin
IsoSeparationDone ==
  /\ isoPc = "separation"
  /\ Loop(offset, sequenceNumber, blocksSent, blockSize, stMin, isoLog,
          waits, rawListeners)
  /\ thrown' = "none"
  /\ UNCHANGED isoData
  /\ rx' = NoData
  /\ UNCHANGED hwVars

\* the read loop hands a chunk to the raw listeners
IsoRaw(data) ==
  /\ service = "serial"
  /\ isoPc # "idle"
  /\ LET fc == FlowControlIn(data)
         heard == { id \in rawListeners : fc.found }
     IN IF heard = {}
          THEN UNCHANGED <<isoPc, multiVars, isoLog, waitVars>>
          ELSE LET id == CHOOSE w \in heard : TRUE
                   ws == IF waits[id] = "waiting"
                           THEN [waits EXCEPT ![id] = "resolved"] ELSE waits
                   ls == cleanup(id, rawListeners)
               IN IF waits[id] # "waiting" \/ isoPc # "flowControl"
                    THEN /\ waits' = ws /\ rawListeners' = ls
                         /\ fcTimeout' = IF fcTimeout.cmd = id THEN NoTimer
                                         ELSE fcTimeout
                         /\ UNCHANGED <<isoPc, multiVars, isoLog>>
                    ELSE IF offset = 6 /\ blocksSent = 0 /\ Len(isoLog) = 1
                      THEN Loop(offset, sequenceNumber, 0, fc.blockSize,
                                decodeStMin(fc.stMin), Append(isoLog, Fc),
                                ws, ls)
                      ELSE Loop(offset, sequenceNumber, 0, blockSize, stMin,
                                Append(isoLog, Fc), ws, ls)
  /\ thrown' = "none"
  /\ UNCHANGED isoData
  /\ rx' = data
  /\ UNCHANGED hwVars

\* the timer of waitForFlowControl fires
IsoFcTimeout ==
  /\ fcTimeout # NoTimer
  /\ now >= fcTimeout.deadline
  /\ waits[fcTimeout.cmd] = "waiting"
  /\ waits' = [waits EXCEPT ![fcTimeout.cmd] = "rejected"]
  /\ rawListeners' = cleanup(fcTimeout.cmd, rawListeners)
  /\ fcTimeout' = NoTimer
  /\ isoPc' = "failed"
  /\ thrown' = "FlowControlTimeout"
  /\ UNCHANGED <<isoData, multiVars, isoLog>>
  /\ rx' = NoData
  /\ UNCHANGED hwVars

\* the payloads an ECU sends and the frames it sends them in
MaxInbound == 3
InboundLengths == {8, 13, 14, 20}

InboundFrames ==
  UNION { {FirstFrame(Payload(n))} \cup
          { ConsecutiveFrame(Payload(n), 6 + 7 * (k - 1), k) :
              k \in 1..((n - 6 + 6) \div 7) } : n \in InboundLengths }

\* the read loop reads a chunk that holds one frame of the ECU: the text
\* joins the buffer and goes to the raw listeners (none while nothing is
\* sent); IsoTpService has no operation that takes part in reception
IsoInbound(frame) ==
  /\ service = "serial"
  /\ state = "connected"
  /\ isoPc = "idle"
  /\ Len(inbound) < MaxInbound
  /\ inbound' = Append(inbound, frame)
  /\ buffer' = Append(buffer, HexLine(frame))
  /\ rx' = NoData
  /\ thrown' = "none"
  /\ UNCHANGED <<service, now, connVars, queueVars, timerVars, seedVars, cmds,
                 states, addrVars, addressingMode, overrides, isoPc, isoData,
                 multiVars, isoLog, waitVars, isoReceived, canAttemptResult, pureVars, adapterVars, txVars, filterVars>>

(***************************************************************************)
(* The functions of UDSMessage applied to the bytes of a response.         *)
(***************************************************************************)
\* longest response parsed
MaxResp == 4
\* 00 01 02 03 04 27 35 50 67 7F
ResponseBytes == {0, 1, 2, 3, 4, SECURITY_ACCESS, INVALID_KEY, 80, 103,
                  NEGATIVE_RESPONSE}

Responses == UNION {[1..n -> ResponseBytes] : n \in 0..MaxResp}

\* service identifiers asked for; the positive answer to 0x3F starts with 0x7F
ExpectedSids == {SECURITY_ACCESS, DIAGNOSTIC_SESSION_CONTROL, 63}

\* a pure function was applied: c is the call, r what it returned or threw
Apply(c, r) ==
  /\ call' = c
  /\ result' = r
  /\ thrown' = "none"
  /\ rx' = NoData
  /\ UNCHANGED <<service, now, connVars, queueVars, timerVars, buffer,
                 seedVars, cmds, states, addrVars, addressingMode, overrides,
                 isoVars, canAttemptResult, txVars, filterVars, adapterVars>>

\* each function is applied once, to one input
UParseResponse ==
  /\ call = NoCall
  /\ \E response \in Responses, expectedSid \in ExpectedSids :
       Apply([fn |-> "parseResponse", bytes |-> response,
              expectedSid |-> expectedSid],
             parseResponse(response, expectedSid))

UParseSecuritySeedResponse ==
  /\ call = NoCall
  /\ \E response \in Responses, level \in Levels :
       Apply([fn |-> "parseSecuritySeedResponse", bytes |-> response,
              level |-> level],
             parseSecuritySeedResponse(response, level))

UParseSecurityKeyResponse ==
  /\ call = NoCall
  /\ \E response \in Responses, level \in Levels :
       Apply([fn |-> "parseSecurityKeyResponse", bytes |-> response,
              level |-> level],
             parseSecurityKeyResponse(response, level))

\* the error parseResponse raises for 7F 27 <nrc>, classified
UClassify ==
  /\ call = NoCall
  /\ \E nrc \in 0..255 :
       LET e == parseResponse(<<NEGATIVE_RESPONSE, SECURITY_ACCESS, nrc>>,
                              SECURITY_ACCESS)
       IN Apply([fn |-> "classify",
                 bytes |-> <<NEGATIVE_RESPONSE, SECURITY_ACCESS, nrc>>],
                [kind |-> e.kind,
                 isSecurityError |-> isSecurityError(e.nrc),
                 isRetryable |-> isRetryable(e.nrc),
                 isLockedOut |-> isLockedOut(e.nrc)])

(***************************************************************************)
(* The functions of GMLANEngine applied to seeds, identities and tables.   *)
(***************************************************************************)
\* programs of four steps and the spare byte of a 13-byte entry
Swap == <<5, 0, 0, 20, 18, 52, 42, 1, 2, 55, 255, 15, 0>>
Rotate == <<76, 3, 0, 82, 1, 128, 107, 0, 5, 117, 1, 2, 0>>
Subtract == <<126, 2, 1, 152, 0, 1, 248, 1, 0, 126, 1, 2, 0>>
\* 0x01 and 0xFF are no opcodes
Unknown == <<1, 9, 9, 20, 0, 1, 255, 0, 0, 5, 0, 0, 0>>
\* the end marker after one step, with steps behind it
Ended == <<20, 0, 1, 0, 7, 7, 20, 0, 1, 20, 0, 1, 0>>
\* one step and nothing else: the same key as Ended
AddOne == <<20, 0, 1, 0, 0, 0, 0, 0, 0, 0, 0, 0, 0>>
Empty == <<0, 0, 0, 0, 0, 0, 0, 0, 0, 0, 0, 0, 0>>
\* the complement without increment: the key of identity 0
Complement == <<42, 0, 0, 0, 0, 0, 0, 0, 0, 0, 0, 0, 0>>

\* identities 1..8; the entry of identity 0 is never read
Legacy == Empty \o Swap \o Rotate \o Subtract \o Unknown \o Ended
          \o AddOne \o Empty \o Complement

\* the code of step s of identity a in the generated tables
Codes == <<5, 20, 42, 55, 76, 82, 107, 117, 126, 152, 248, 1, 0>>

\* byte j (from 0) of a table of 16-byte entries of five steps
Generated(j) ==
  LET a == j \div 16
      s == (j % 16) \div 3
      c == (j % 16) % 3
  IN IF j % 16 = 15 THEN 0
     ELSE IF c = 0 THEN Codes[((a * 5 + s) % 13) + 1]
     ELSE IF c = 1 THEN (a * 7 + s) % 256
     ELSE (a * 3 + 2 * s + 1) % 256

\* 1: no table; 2: the table of the bounds test; 3: nine 13-byte entries;
\* 4: three entries and 12 bytes of the fourth; 5: 4096 bytes, read in
\* 16-byte entries; 6: 4097 bytes, read in 13-byte entries
Tables ==
  << <<>>,
     [i \in 1..10 |-> 0],
     Legacy,
     SubSeq(Legacy, 1, 51),
     [i \in 1..4096 |-> Generated(i - 1)],
     [i \in 1..4097 |-> Generated(i - 1)] >>

\* 0x0000 0x0001 0x1234 0x8000 0xAAAA 0xD435 0xFFFF, and no seeds
SeedInputs ==
  {Whole(v) : v \in {0, 1, 4660, 32768, 43690, 54325, 65535}}
  \cup {Whole(-1), Whole(65536), Half(1)}

AlgoInputs ==
  {Whole(v) : v \in (-1..9) \cup {137, 254, 255, 256, 315}} \cup {Half(1)}

\* the seeds tried on table t: one seed on the long tables
SeedsFor(t) ==
  IF Len(Tables[t]) >= 4096 THEN {Whole(54325), Whole(-1)} ELSE SeedInputs

\* keys asked of reverseEngineer: the keys of the table and two others
KnownKeys(seed, t) ==
  {Whole(getKey(seed, a, Tables[t]).key) :
     a \in {b \in AlgoInputs : getKey(seed, b, Tables[t]).kind = "key"}}
  \cup {Whole(12887), Half(0)}

GGetKey ==
  /\ call = NoCall
  /\ \E s \in SeedInputs, a \in AlgoInputs, t \in DOMAIN Tables :
       Apply([fn |-> "getKey", seed |-> s, algo |-> a, table |-> t],
             getKey(s, a, Tables[t]))

GReverseEngineer ==
  /\ call = NoCall
  /\ \E t \in DOMAIN Tables :
       \E s \in SeedsFor(t) :
         \E k \in KnownKeys(s, t) :
           Apply([fn |-> "reverseEngineer", seed |-> s, targetKey |-> k,
                  table |-> t],
                 reverseEngineer(s, k, Tables[t]))

GBruteForceAll ==
  /\ call = NoCall
  /\ \E t \in DOMAIN Tables :
       \E s \in SeedsFor(t) :
         Apply([fn |-> "bruteForceAll", seed |-> s, table |-> t],
               bruteForceAll(s, Tables[t]))

GGetKeyCore ==
  /\ call = NoCall
  /\ \E s \in SeedInputs, a \in AlgoInputs, t \in DOMAIN Tables :
       Apply([fn |-> "getKeyCore", seed |-> s, algo |-> a, table |-> t],
             getKeyCore(s, a, Tables[t]))

GBruteForceAllCore ==
  /\ call = NoCall
  /\ \E t \in DOMAIN Tables :
       \E s \in SeedsFor(t) :
         Apply([fn |-> "bruteForceAllCore", seed |-> s, table |-> t],
               bruteForceAllCore(s, Tables[t]))

(***************************************************************************)
(* The functions of SA015Engine applied to an algorithm and a seed         *)
(***************************************************************************)
\* the last byte of the seed decides the length of the chain
SeedTails == {0, 1, 2, 55, 127, 128, 200, 252, 253, 254, 255}

Sa015Seeds ==
  {[isUint8Array |-> TRUE, bytes |-> <<18, 52, 86, 120, t>>] : t \in SeedTails}
  \cup {[isUint8Array |-> TRUE, bytes |-> <<18, 52, 86, 120>>],
        [isUint8Array |-> TRUE, bytes |-> <<18, 52, 86, 120, 0, 0>>],
        [isUint8Array |-> FALSE, bytes |-> <<18, 52, 86, 120, 0>>]}

Sa015Algos ==
  {Whole(a) : a \in DOMAIN PASSWORD_MAP} \cup
  {Whole(0), Whole(-1), Whole(65536), Half(1)}

\* the call, up to the first await of the hash chain
ADeriveKey ==
  /\ call = NoCall
  /\ \E a \in Sa015Algos :
       \E s \in Sa015Seeds :
         Apply([fn |-> "deriveKey", algo |-> a, seed |-> s], deriveKey(a, s))

\* an await of sha256 in the loop returns
AHash ==
  /\ call.fn = "deriveKey"
  /\ result.kind = "hashing"
  /\ result.i < result.iterations
  /\ Apply(call, Iterate(result))

\* the loop has ended and the block is encrypted
AFinish ==
  /\ call.fn = "deriveKey"
  /\ result.kind = "hashing"
  /\ ~(result.i < result.iterations)
  /\ Apply(call, Finish(result))

(***************************************************************************)
(* The clock                                                               *)
(***************************************************************************)
Tick(d) ==
  /\ now + d <= MaxTime
  /\ now' = now + d
  /\ thrown' = "none"
  /\ UNCHANGED <<service, connVars, queueVars, timerVars, buffer, seedVars,
                 cmds, states>>
  /\ rx' = NoData
  /\ UNCHANGED layerVars

(***************************************************************************)
(* Specifications                                                          *)
(***************************************************************************)
InitService(s) ==
  /\ service = s
  /\ now = 0
  /\ state = "disconnected"
  /\ heartbeatInterval = FALSE
  /\ commandQueue = <<>>
  /\ isProcessing = FALSE
  /\ currentTimeoutId = NoTimer
  /\ timers = {}
  /\ buffer = <<>>
  /\ pendingWrites = <<>>
  /\ lastSeed = NoSeed
  /\ lastSeedTime = 0
  /\ lastSecurityLevel = 1
  /\ cmds = <<>>
  /\ txLog = <<>>
  /\ thrown = "none"
  /\ sinceSeed = {}
  /\ rx = NoData
  /\ states = <<>>
  /\ currentHeader = 2016
  /\ requestHeader = currentHeader
  /\ addressingMode = "physical"
  /\ lastTx = NoTx
  /\ filtersKey = NoKey
  /\ applies = <<>>
  /\ answered = 0
  /\ responseFilters = <<>>
  /\ responseIds = NullIds
  /\ overrides = [c \in 1..MaxOverrides |-> NoOverride]
  /\ isoPc = "idle"
  /\ isoData = <<>>
  /\ offset = 0
  /\ sequenceNumber = 1
  /\ blocksSent = 0
  /\ blockSize = 0
  /\ stMin = 0
  /\ isoLog = <<>>
  /\ rawListeners = {}
  /\ fcTimeout = NoTimer
  /\ waits = <<>>
  /\ inbound = <<>>
  /\ isoReceived = <<>>
  /\ canAttemptResult = NoResult
  /\ call = NoCall
  /\ result = NoCall

\* the seed/key exchange of a hardware service
Init == \E s \in {"serial", "j2534"} : InitService(s)

Next ==
  \/ SConnect
  \/ SDisconnect
  \/ \E level \in Levels : SRequestSeed(level)
  \/ \E level \in Levels, key \in Keys : SSendKey(level, key)
  \/ \E level \in Levels, key \in Keys : SSendKey5Byte(level, key)
  \/ SWriteDone
  \/ \E t \in timers : STimerFire(t)
  \/ \E reply \in Replies : SPrompt(reply) /\ UNCHANGED adapterVars
  \/ \E opened \in BOOLEAN : JConnect(opened)
  \/ JDisconnect
  \/ \E level \in Levels : JRequestSeed(level)
  \/ \E level \in Levels \cup {Undefined}, key \in Keys : JSendKey(level, key)
  \/ \E level \in Levels \cup {Undefined}, key \in Keys : JSendKey5Byte(level, key)
  \/ \E t \in timers, data \in EcuFrames \cup {PendingFrame} : JRead(t, data)
  \/ \E t \in timers : JPollTimeout(t)
  \/ \E d \in TimeSteps : Tick(d)

Spec == Init /\ [][Next]_vars

\* the command queue of SerialService under raw commands and heartbeats
InitQueue == InitService("serial")

NextQueue ==
  \/ SConnect
  \/ SDisconnect
  \/ SReadError
  \/ \E reconnected \in BOOLEAN : SReconnect(reconnected)
  \/ SSend
  \/ SStartHeartbeat
  \/ SHeartbeatTick
  \/ SWriteDone
  \/ \E t \in timers : STimerFire(t)
  \/ \E line \in PartialLines : SData(line)
  \/ \E reply \in Replies : SPrompt(reply) /\ UNCHANGED adapterVars
  \/ SClearQueue
  \/ \E d \in TimeSteps : Tick(d)

SpecQueue == InitQueue /\ [][NextQueue]_vars

\* the command queue of SerialService in front of an adapter that answers
\* each written command once, possibly after the command's timer has fired
NextAnswers ==
  \/ SConnect
  \/ SSend
  \/ SWriteDone
  \/ \E t \in timers : STimerFire(t)
  \/ \E reply \in Replies : SAnswer(reply)
  \/ SClearQueue
  \/ \E d \in TimeSteps : Tick(d)

SpecAnswers == InitQueue /\ [][NextAnswers]_vars

\* a SerialService whose application keeps a SecurityAccessManager
InitLockout == InitService("serial")

NextLockout ==
  \/ SConnect
  \/ \E level \in ManagerLevels : SRequestSeed(level)
  \/ SWriteDone
  \/ \E reply \in Replies : SPrompt(reply) /\ UNCHANGED adapterVars
  \/ \E level \in ManagerLevels : MRecordSuccess(level)
  \/ \E level \in ManagerLevels,
        nrc \in SecurityNrcs : MRecordFailure(level, nrc)
  \/ \E level \in ManagerLevels : MReset(level)
  \/ MResetAll
  \/ \E d \in TimeSteps : Tick(d)

SpecLockout == InitLockout /\ [][NextLockout]_vars

\* a request that the ECU answers with response-pending, on either service
InitPending == \E s \in {"serial", "j2534"} : InitService(s)

NextPending ==
  \/ SConnect
  \/ \E level \in {1} : SRequestSeed(level)
  \/ SWriteDone
  \/ \E t \in timers : STimerFire(t)
  \/ \E line \in PartialLines : SData(line)
  \/ \E reply \in Replies : SPrompt(reply) /\ UNCHANGED adapterVars
  \/ \E opened \in BOOLEAN : JConnect(opened)
  \/ \E timeout \in J2534Timeouts : JSend(timeout)
  \/ \E t \in timers, data \in EcuFrames \cup {PendingFrame} : JRead(t, data)
  \/ \E t \in timers : JPollTimeout(t)
  \/ \E d \in TimeSteps : Tick(d)

SpecPending == InitPending /\ [][NextPending]_vars

\* raw requests of J2534Service polled for over any length of time: the loop
\* of pollResponses reads the clock again after every read_messages and
\* every sleep of 10 ms, and time passes while a poll waits
InitPoll == InitService("j2534")

NextPoll ==
  \/ \E opened \in BOOLEAN : JConnect(opened)
  \/ \E timeout \in J2534Timeouts : JSend(timeout)
  \/ \E t \in timers, data \in EcuFrames \cup {PendingFrame} : JRead(t, data)
  \/ \E t \in timers : JPollTimeout(t)
  \/ \E d \in PollSteps : Elapse(d)

SpecPoll ==
  /\ InitPoll /\ [][NextPoll]_vars
  /\ WF_vars(\E d \in PollSteps : Elapse(d))
  /\ WF_vars(\E t \in timers : JPollTimeout(t))

\* the calls that override the addressing of J2534Service
InitOverride == InitService("j2534")

NextOverride ==
  \/ \E c \in 1..MaxOverrides :
       /\ WBegin(c, currentHeader, CallerResponseId, <<SECURITY_ACCESS, 1>>)
       /\ UNCHANGED filterVars
  \/ \E c \in 1..MaxOverrides : WApplied(c)
  \/ \E c \in 1..MaxOverrides, returned \in BOOLEAN :
       WFinally(c, returned) /\ UNCHANGED filterVars
  \/ \E c \in 1..MaxOverrides : WSettle(c)
  \/ \E filters \in FilterInputs :
       JSetResponseFilters(filters) /\ UNCHANGED filterVars
  \/ \E mode \in {"physical", "functional"} :
       JSetAddressingMode(mode) /\ UNCHANGED filterVars

SpecOverride == InitOverride /\ [][NextOverride]_vars

\* the requests of J2534Service and the header each is sent to
NextAddressing ==
  \/ \E c \in 1..MaxOverrides, request \in Requests :
       /\ WBegin(c, currentHeader, CallerResponseId, request)
       /\ UNCHANGED filterVars
  \/ \E c \in 1..MaxOverrides : WApplied(c)
  \/ \E c \in 1..MaxOverrides, returned \in BOOLEAN :
       WFinally(c, returned) /\ UNCHANGED filterVars
  \/ \E c \in 1..MaxOverrides : WSettle(c)
  \/ \E mode \in {"physical", "functional"} :
       JSetAddressingMode(mode) /\ UNCHANGED filterVars
  \/ \E headerId \in HeaderInputs :
       JSetHeader(headerId) /\ UNCHANGED filterVars
  \/ \E bytes \in Requests : JSendRaw(bytes)

SpecAddressing == InitOverride /\ [][NextAddressing]_vars

\* J2534Service configured by the application and then running wrapped
\* requests (requestSeed, sendKey) that may overlap
Configuring == \A c \in 1..MaxOverrides : overrides[c].stage = "idle"

NextOverlap ==
  \/ \E c \in 1..MaxOverrides :
       /\ WBegin(c, currentHeader, CallerResponseId, <<SECURITY_ACCESS, 1>>)
       /\ UNCHANGED filterVars
  \/ \E c \in 1..MaxOverrides : WApplied(c)
  \/ \E c \in 1..MaxOverrides, returned \in BOOLEAN :
       WFinally(c, returned) /\ UNCHANGED filterVars
  \/ \E c \in 1..MaxOverrides : WSettle(c)
  \/ \E filters \in FilterInputs :
       Configuring /\ JSetResponseFilters(filters) /\ UNCHANGED filterVars
  \/ \E mode \in {"physical", "functional"} :
       Configuring /\ JSetAddressingMode(mode) /\ UNCHANGED filterVars
  \/ \E headerId \in HeaderInputs :
       Configuring /\ JSetHeader(headerId) /\ UNCHANGED filterVars

SpecOverlap == InitOverride /\ [][NextOverlap]_vars

\* the filter sets of J2534Service and the calls made to the device, with
\* the setters of the application and one wrapped request
NextFilters ==
  \/ \E filters \in FilterInputs : FSetResponseFilters(filters)
  \/ \E mode \in {"physical", "functional"} : FSetAddressingMode(mode)
  \/ FWBegin(1, <<SECURITY_ACCESS, 1>>)
  \/ FWApplied(1)
  \/ \E returned \in BOOLEAN : FWFinally(1, returned)
  \/ FWSettle(1)
  \/ \E k \in 1..MaxApplies, ok \in BOOLEAN : FCanDone(k, ok)
  \/ \E k \in 1..MaxApplies, ok \in BOOLEAN : FIsoDone(k, ok)

SpecFilters == InitOverride /\ [][NextFilters]_vars

\* IsoTpService sending one payload over a connected SerialService
InitIsoTp == InitService("serial")

NextIsoTp ==
  \/ \E n \in IsoLengths : IsoSend(n)
  \/ \E sent \in BOOLEAN : IsoFrameDone(sent)
  \/ IsoSeparationDone
  \/ \E data \in RawChunks : IsoRaw(data)
  \/ IsoFcTimeout
  \/ \E d \in TimeSteps : Tick(d)

SpecIsoTp == InitIsoTp /\ [][NextIsoTp]_vars

\* IsoTpService segmenting payloads of every size class
NextSegment ==
  \/ \E n \in LongLengths : IsoSend(n)
  \/ \E sent \in BOOLEAN : IsoFrameDone(sent)
  \/ IsoSeparationDone
  \/ \E data \in {FcText(0, 0), FcText(2, 241)} : IsoRaw(data)

SpecSegment == InitIsoTp /\ [][NextSegment]_vars

\* an ECU sending segmented messages to a connected SerialService
NextReceive ==
  \/ SConnect
  \/ SDisconnect
  \/ \E frame \in InboundFrames : IsoInbound(frame)

SpecReceive == InitIsoTp /\ [][NextReceive]_vars

\* SecurityAccessManager alone, with the clock
NextManager ==
  \/ \E level \in ManagerLevels : MCanAttempt(level)
  \/ \E level \in ManagerLevels : MRecordSuccess(level)
  \/ \E level \in ManagerLevels,
        nrc \in SecurityNrcs : MRecordFailure(level, nrc)
  \/ \E level \in ManagerLevels : MReset(level)
  \/ MResetAll
  \/ \E d \in TimeSteps : Tick(d)

SpecManager == InitLockout /\ [][NextManager]_vars

\* UDSMessage applied to responses
NextUds ==
  \/ UParseResponse
  \/ UParseSecuritySeedResponse
  \/ UParseSecurityKeyResponse
  \/ UClassify

SpecUds == InitLockout /\ [][NextUds]_vars

\* the records of two levels under every operation of the manager
NextRecords ==
  \/ \E level \in RecordLevels : RCanAttempt(level)
  \/ \E level \in RecordLevels : RRecordSuccess(level)
  \/ \E level \in RecordLevels, nrc \in RecordNrcs : RRecordFailure(level, nrc)
  \/ \E level \in RecordLevels, seed \in StoredSeeds : RStoreSeed(level, seed)
  \/ \E level \in RecordLevels : RReset(level)
  \/ RResetAll
  \/ \E d \in TimeSteps : Tick(d)

SpecRecords == InitLockout /\ [][NextRecords]_vars

\* GMLANEngine of the application applied to seeds, identities and tables
NextGmlan ==
  \/ GGetKey
  \/ GReverseEngineer
  \/ GBruteForceAll

SpecGmlan == InitLockout /\ [][NextGmlan]_vars

\* the engines of the application and of packages/core side by side
NextEngines ==
  \/ GGetKey
  \/ GBruteForceAll
  \/ GGetKeyCore
  \/ GBruteForceAllCore

SpecEngines == InitLockout /\ [][NextEngines]_vars

\* the modern engine by itself
NextSa015 ==
  \/ ADeriveKey
  \/ AHash
  \/ AFinish

SpecSa015 == InitLockout /\ [][NextSa015]_vars

(***************************************************************************)
(* Properties                                                              *)
(***************************************************************************)
\* this step accepted a new request
Accepted == Len(cmds') = Len(cmds) + 1

AcceptedCmd == cmds'[Len(cmds')]

\* this step is a sendKey / sendKey5Byte call that passed its checks
KeyAccepted == Accepted /\ AcceptedCmd.kind = "key"

\* this step handed the frame of request i to the transport
Written(i) == txLog' = Append(txLog, i)

\* the errors with which sendKey refuses a call before sending anything
KeyRefusals == {"NoSeedPending", "SeedExpired", "LevelMismatch", "KeyLength"}

SeedFresh == lastSeed # NoSeed /\ now - lastSeedTime <= SEED_TIMEOUT_MS

\* how often the frame of request i was handed to the transport
TimesWritten(i) == Cardinality({k \in DOMAIN txLog : txLog[k] = i})

\* the writes to the transport whose command is neither resolved nor rejected
InFlight == {k \in DOMAIN txLog : Pending(txLog[k])}

C2_RejectedKeyInvalidatesSeed ==
  [][("rejected" \in sinceSeed) => ~KeyAccepted]_vars

\* C3: once the ECU has accepted a key no seed is pending, and no sendKey is
\* accepted (nothing is queued or written for it) until requestSeed has
\* stored a new seed
C3_AcceptedKeyClearsSeed ==
  [][/\ ("accepted" \in sinceSeed) => ~KeyAccepted
     /\ ("accepted" \in sinceSeed') => lastSeed' = NoSeed]_vars

\* C3 witness: after an accepted key a sendKey was refused for want of a seed
C3_Witness == "accepted" \in sinceSeed /\ thrown = "NoSeedPending"

\* C4: a sendKey is refused as expired exactly when a seed is pending that was
\* stored strictly more than 10 000 ms ago; the refusal discards the seed and
\* sends nothing; from then on no sendKey is accepted, nor refused as expired
\* again, until requestSeed has stored a new seed; a sendKey that is accepted
\* or refused for its level or key length found a seed of at most 10 000 ms
C4_SeedValidityWindow ==
  [][/\ thrown' = "SeedExpired" =>
          /\ lastSeed # NoSeed /\ now - lastSeedTime > SEED_TIMEOUT_MS
          /\ lastSeed' = NoSeed
          /\ cmds' = cmds /\ txLog' = txLog
     /\ ("expired" \in sinceSeed) => ~KeyAccepted /\ thrown' # "SeedExpired"
     /\ ("expired" \in sinceSeed') => lastSeed' = NoSeed
     /\ (KeyAccepted \/ thrown' \in {"LevelMismatch", "KeyLength"}) =>
          SeedFresh]_vars

\* C4 witness: after a refusal for expiry a later sendKey found no seed pending
C4_Witness == "expired" \in sinceSeed /\ thrown = "NoSeedPending"

TimedOut(i) ==
  Pending(i) /\ cmds'[i].outcome = "settled" /\ thrown' = "Timeout"

\* the timeout of request i: what it does to request i and to the others
TimeoutRejectsHead(i) ==
  /\ commandQueue # <<>> /\ i = Head(commandQueue)
  /\ \E t \in timers : t.cmd = i /\ now >= t.deadline
  /\ commandQueue' = Tail(commandQueue)
  /\ \A j \in DOMAIN cmds : j # i => cmds'[j] = cmds[j]

\* C7 as stated: a timeout rejects exactly the command at the head of the
\* queue, whose timer has run out, and removes it; no other command is
\* rejected; and the next queued command, if any, is written to the transport
C7_TimeoutWritesNext ==
  [][\A i \in DOMAIN cmds :
       TimedOut(i) =>
         /\ TimeoutRejectsHead(i)
         /\ Len(commandQueue) >= 2 => Written(commandQueue[2])]_vars

\* C8: the key request of a sendKey / sendKey5Byte call is written to the
\* transport at most once, and it is the frame 27 <level+1> <key>
C8_KeyWrittenAtMostOnce ==
  \A i \in DOMAIN cmds :
    cmds[i].kind = "key" =>
      /\ TimesWritten(i) <= 1
      /\ Pending(i) =>
           /\ cmds[i].frame[1] = SECURITY_ACCESS
           /\ cmds[i].frame[2] = cmds[i].level + 1
           /\ SubSeq(cmds[i].frame, 3, Len(cmds[i].frame)) \in Keys

\* C8 witness: a key request of SerialService timed out after one write
C8_Witness ==
  /\ service = "serial"
  /\ Len(cmds) = 2 /\ cmds[2].kind = "key" /\ ~Pending(2)
  /\ thrown = "Timeout"
  /\ TimesWritten(2) = 1

\* C9 as stated: while canAttempt refuses a level, no seed request for that
\* level is accepted for transmission
C9_NoSeedRequestWhileLockedOut ==
  [][\A level \in ManagerLevels :
       ~canAttempt(level).allowed =>
         ~(Accepted /\ AcceptedCmd.kind = "seed"
                    /\ AcceptedCmd.level = normalizeSeedLevel(level))]_vars

\* C10 as stated: after disconnect() no sendKey is accepted until requestSeed
\* has stored a new seed
C10_NoKeyAfterDisconnect ==
  [][("disconnected" \in sinceSeed) => ~KeyAccepted]_vars

\* the data of a J2534 message that pollResponses takes as response pending
PendingData(data) ==
  Len(data) >= 3 /\ data[1] = NEGATIVE_RESPONSE /\ data[3] = NRC_RESPONSE_PENDING

\* this step replaced the deadline t of a running pollResponses by u
Extends(t, u) ==
  /\ t \in timers /\ u.cmd = t.cmd
  /\ timers' = (timers \ {t}) \cup {u}

OnlyPending(raw) == sendUdsRequest(raw, SECURITY_ACCESS).kind = "pending"

\* C12: a request of SerialService that was written and then answered with
\* response-pending frames only is reported as failed only when its response
\* window has elapsed: not before the deadline of the command
C12_PendingFailsAfterWindow ==
  [][(/\ service = "serial" /\ OnlyPending(rx')
      /\ commandQueue # <<>> /\ isProcessing
      /\ cmds[Head(commandQueue)].kind = "seed"
      /\ currentTimeoutId # NoTimer
      /\ currentTimeoutId.cmd = Head(commandQueue)
      /\ thrown' # "none")
       => now >= currentTimeoutId.deadline]_vars

\* call c of the wrapper finishes in this step
Finishes(c) == overrides[c].stage # "done" /\ overrides'[c].stage = "done"

\* the finally block of call c runs in this step
RunsFinally(c) == overrides[c].stage = "fn" /\ overrides'[c].stage # "fn"

IsFrame(log, k, type) == log[k].t = "tx" /\ log[k].frame[1] \div 16 = type

\* the positions of the consecutive frames in the log
CFs(log) == { k \in DOMAIN log : IsFrame(log, k, 2) }
FCs(log) == { k \in DOMAIN log : log[k] = Fc }

\* the text of a flow-control frame, 30 BS ST, alone in a chunk or after a
\* character that is no hex digit
IsFlowControlText(data) ==
  LET clean == SelectSeq(data, LAMBDA c : c # Blank)
      text == IF clean # <<>> /\ clean[1] = Other THEN Tail(clean) ELSE clean
  IN /\ Len(text) >= 6
     /\ text[1] = 3 /\ text[2] = 0
     /\ \A k \in 3..6 : text[k] < 16

\* this step hands a consecutive frame to sendFrame
SendsCF == Len(isoLog') > Len(isoLog) /\ IsFrame(isoLog', Len(isoLog'), 2)

\* C14: a consecutive frame is transmitted only after the first frame was
\* sent and a flow-control frame was received after it; the wait after the
\* first frame ends only by received flow-control data or by its timeout,
\* and after the timeout send has failed and transmits nothing any more
C14_NoCFBeforeFlowControl ==
  [][/\ SendsCF =>
          /\ \E f \in FCs(isoLog') : IsFrame(isoLog', 1, 1) /\ 1 < f
          /\ isoPc = "flowControl" => IsFlowControlText(rx')
     /\ (isoPc = "flowControl" /\ isoPc' = "failed") =>
          /\ now >= fcTimeout.deadline
          /\ thrown' = "FlowControlTimeout"
     /\ isoPc = "failed" => (isoPc' = "failed" /\ isoLog' = isoLog)]_vars

\* C14 witness: the first consecutive frame went out after the flow control
C14_Witness ==
  /\ Len(isoLog) = 3 /\ IsFrame(isoLog, 1, 1) /\ isoLog[2] = Fc
  /\ IsFrame(isoLog, 3, 2)

\* the number of the consecutive frame at position k of the log
Ordinal(log, k) == Cardinality({ j \in CFs(log) : j <= k })

\* C15: the consecutive frame number c is sent right after a received flow
\* control exactly if c = 1 or the block size BS is positive and c is
\* BS+1, 2*BS+1, ...: at most BS frames go out between two flow controls,
\* with BS = 0 one flow control is awaited in all, and no wait follows the
\* last consecutive frame
C15_BlockSizeBackPressure ==
  /\ \A k \in CFs(isoLog) :
       LET c == Ordinal(isoLog, k) IN
       (isoLog[k - 1] = Fc) <=>
          (c = 1 \/ (blockSize > 0 /\ (c - 1) % blockSize = 0))
  /\ (isoPc = "done" /\ Len(isoData) > 7) =>
       /\ isoLog[Len(isoLog)] # Fc
       /\ Len(waits) = Cardinality(FCs(isoLog))
       /\ blockSize = 0 => Len(waits) = 1

\* C15 witness: a message sent in blocks of two, with a third flow control
C15_Witness ==
  /\ isoPc = "done" /\ blockSize = 2
  /\ Cardinality(FCs(isoLog)) >= 3
  /\ Cardinality(CFs(isoLog)) % 2 = 0

\* the bytes that frame number k (from 0) of the reference segmentation of
\* data starts with
ReferenceFrame(data, k) ==
  LET n == Len(data) IN
  IF n <= 7 THEN <<n>> \o data
  ELSE IF k = 0 THEN <<16 + (n \div 256), n % 256>> \o SubSeq(data, 1, 6)
  ELSE <<32 + (k % 16)>> \o
       [i \in 1..(IF 6 + 7 * k <= n THEN 7 ELSE n - 6 - 7 * (k - 1)) |->
          data[6 + 7 * (k - 1) + i]]

\* the number of frames of the reference segmentation: one single frame, or
\* a first frame and ceil((n - 6) / 7) consecutive frames
ReferenceCount(n) == IF n <= 7 THEN 1 ELSE 1 + ((n - 6 + 6) \div 7)

\* the transmissions of the log, in order
Frames(log) == SelectSeq(log, LAMBDA e : e.t = "tx")

\* C16: the frames send hands over are, in order, the frames of the
\* reference segmentation of the payload, each of 8 bytes, and when send is
\* done they are all of them
C16_ReferenceSegmentation ==
  LET fs == Frames(isoLog) IN
  /\ Len(fs) <= ReferenceCount(Len(isoData))
  /\ \A k \in DOMAIN fs :
       LET ref == ReferenceFrame(isoData, k - 1) IN
       Len(fs[k].frame) = 8 /\ SubSeq(fs[k].frame, 1, Len(ref)) = ref
  /\ isoPc = "done" => Len(fs) = ReferenceCount(Len(isoData))

\* C16 witness: a payload whose sequence numbers wrapped from 15 to 0 is sent
C16_Witness ==
  /\ isoPc = "done" /\ Len(isoData) = MaxLen
  /\ Len(Frames(isoLog)) >= 18

\* C17: a wait for flow control starts with its listener registered and its
\* own timer of IsoTimeout; it is resolved by the first flow-control data
\* received, or rejected at its deadline; once settled its outcome stays and
\* its listener and its timer are gone
C17_FlowControlWaitOneShot ==
  [][\A id \in DOMAIN waits' :
       /\ id \notin DOMAIN waits =>
            /\ waits'[id] = "waiting" /\ id \in rawListeners'
            /\ fcTimeout' = [cmd |-> id, deadline |-> now + IsoTimeout]
       /\ id \in DOMAIN waits =>
            /\ waits[id] # "waiting" => waits'[id] = waits[id]
            /\ (waits[id] = "waiting" /\ waits'[id] = "resolved") =>
                 IsFlowControlText(rx')
            /\ (waits[id] = "waiting" /\ IsFlowControlText(rx')) =>
                 waits'[id] = "resolved"
            /\ (waits[id] = "waiting" /\ waits'[id] = "rejected") =>
                 fcTimeout.cmd = id /\ now >= fcTimeout.deadline
       /\ waits'[id] # "waiting" =>
            id \notin rawListeners' /\ fcTimeout'.cmd # id]_vars

\* C17 witness: flow-control data arrives after the only wait was resolved
\* and send is done
C17_Witness ==
  /\ isoPc = "done" /\ waits = <<"resolved">> /\ rawListeners = {}
  /\ IsFlowControlText(rx)

\* the frames of the segmentation of a payload, as the sender builds them
Segmentation(data) ==
  <<FirstFrame(data)>> \o
  [k \in 1..((Len(data) - 6 + 6) \div 7) |->
     ConsecutiveFrame(data, 6 + 7 * (k - 1), k)]

\* the consecutive frame at position k of the inbound frames does not carry
\* the sequence number that follows the one before it
SequenceGap(k) ==
  /\ k > 1 /\ inbound[k][1] \div 16 = 2
  /\ inbound[k][1] % 16 # (IF inbound[k - 1][1] \div 16 = 1 THEN 1
                           ELSE ((inbound[k - 1][1] % 16) + 1) % 16)

\* C18: once the first frame and the consecutive frames of a payload have
\* been received in order the receiver has yielded that payload, and a
\* consecutive frame out of sequence is reported as a transport error
C18_ReceptionRoundTrip ==
  /\ \A n \in InboundLengths :
       inbound = Segmentation(Payload(n)) => isoReceived = <<Payload(n)>>
  /\ (inbound # <<>> /\ SequenceGap(Len(inbound))) => thrown = "TransportError"

(***************************************************************************)
(* SecurityAccessManager                                                   *)
(***************************************************************************)
\* C19: recordFailure(level, nrc) with a security-classified nrc adds
\* exactly one to failedAttempts of the level; it sets lockoutRemaining to
\* 10000 for 0x36, to 5000 for 0x37 and leaves it as it was for 0x33 and 0x35
C19_RecordFailureCountsAndLocks ==
  [][\A level \in ManagerLevels, nrc \in SecurityNrcs :
       MRecordFailure(level, nrc) =>
         LET old == getState(level)
             new == states'[level]
         IN /\ new.failedAttempts = old.failedAttempts + 1
            /\ new.lockoutRemaining =
                 CASE nrc = 54 -> 10000
                   [] nrc = 55 -> 5000
                   [] OTHER -> old.lockoutRemaining]_vars

\* C19 witness: a second failure, with 0x37, recorded after a lockout of
\* 10000 ms
C19_Witness ==
  \E level \in DOMAIN states :
    /\ states[level].failedAttempts = 2
    /\ states[level].lockoutRemaining = P2_STAR_SERVER_MAX
    /\ states[level].lastAttemptTime = now /\ now > 0

\* C20: with a lockout of D ms recorded for the level, canAttempt(level)
\* returns allowed = false and waitMs = D - elapsed while less than D ms
\* have passed since lastAttemptTime, and from then on allowed = true and
\* waitMs = 0 with lockoutRemaining reset to 0; without a recorded lockout
\* it allows, and only recordFailure with 0x36 or 0x37 records one
C20_LockoutTimeBoxed ==
  [][\A level \in ManagerLevels :
       /\ MCanAttempt(level) =>
            LET st == getState(level)
                elapsed == now - st.lastAttemptTime
            IN IF st.lockoutRemaining > 0 /\ elapsed < st.lockoutRemaining
                 THEN /\ canAttemptResult' =
                           [allowed |-> FALSE,
                            waitMs |-> st.lockoutRemaining - elapsed]
                      /\ states'[level] = st
                 ELSE /\ canAttemptResult' = [allowed |-> TRUE, waitMs |-> 0]
                      /\ states'[level].lockoutRemaining = 0
       /\ (getState(level).lockoutRemaining = 0
           /\ level \in DOMAIN states'
           /\ states'[level].lockoutRemaining > 0) =>
            \E nrc \in {54, 55} : MRecordFailure(level, nrc)]_vars

\* C20 witness: 5001 ms into a lockout of 10000 ms canAttempt has refused,
\* with 4999 ms to wait
C20_Witness ==
  /\ canAttemptResult = [allowed |-> FALSE, waitMs |-> 4999]
  /\ \E level \in DOMAIN states :
       /\ states[level].lockoutRemaining = SECURITY_LOCKOUT_DURATION
       /\ now - states[level].lastAttemptTime = 5001

\* C21: once MAX_ATTEMPTS failures are recorded for a level with no success
\* in between, canAttempt(level) refuses, whatever NRC the failures carried
C21_LockedOutAfterMaxAttempts ==
  \A level \in DOMAIN states :
    states[level].failedAttempts >= MAX_ATTEMPTS => ~canAttempt(level).allowed

(***************************************************************************)
(* UDSMessage                                                              *)
(***************************************************************************)
\* C22: parseResponse(response, expectedSid) has one outcome, decided in
\* this order: empty for no bytes; the negative response with serviceId =
\* byte 1 and nrc = byte 2 for 0x7F and 3 bytes or more, whatever
\* expectedSid is; malformed for 0x7F and fewer bytes; unexpected service
\* identifier for a first byte other than expectedSid + 0x40; otherwise the
\* response itself
C22_ParseResponseOutcome ==
  call.fn = "parseResponse" =>
    LET r == call.bytes
        n == Len(r)
    IN /\ n = 0 => result = [kind |-> "empty"]
       /\ (n >= 3 /\ r[1] = 127) =>
            result = [kind |-> "nrc", sid |-> r[2], nrc |-> r[3]]
       /\ (n \in 1..2 /\ r[1] = 127) => result = [kind |-> "malformed"]
       /\ (n >= 1 /\ r[1] # 127 /\ r[1] # call.expectedSid + 64) =>
            result = [kind |-> "unexpectedSid"]
       /\ (n >= 1 /\ r[1] # 127 /\ r[1] = call.expectedSid + 64) =>
            result = [kind |-> "ok", value |-> r]

\* C22 witness: 7F 27 35 parsed for service 0x3F, whose positive answer
\* would start with 0x7F too, raised the negative response of 0x27
C22_Witness ==
  /\ call = [fn |-> "parseResponse", bytes |-> <<127, 39, 53>>,
             expectedSid |-> 63]
  /\ result = [kind |-> "nrc", sid |-> 39, nrc |-> 53]

\* a positive response to security access: it starts with 0x67
PositiveSecurityAccess(r) == Len(r) >= 1 /\ r[1] = 103

\* C23: parseSecuritySeedResponse returns the bytes after the second byte
\* exactly when the response is a positive security-access response whose
\* second byte is the requested level, and fails otherwise;
\* parseSecurityKeyResponse returns true exactly for a positive response of
\* 2 bytes or more whose second byte is level + 1, false for every other
\* positive response, and raises the negative response for a negative one
C23_SeedAndKeyResponses ==
  LET r == call.bytes
      Seed == PositiveSecurityAccess(r) /\ Len(r) >= 2 /\ r[2] = call.level
      Key == PositiveSecurityAccess(r) /\ Len(r) >= 2
             /\ r[2] = call.level + 1
      Negative == Len(r) >= 3 /\ r[1] = 127
  IN /\ call.fn = "parseSecuritySeedResponse" =>
          IF Seed
            THEN result = [kind |-> "ok",
                           seed |-> [i \in 1..(Len(r) - 2) |-> r[i + 2]]]
            ELSE result.kind # "ok"
     /\ call.fn = "parseSecurityKeyResponse" =>
          /\ Key => result = [kind |-> "ok", accepted |-> TRUE]
          /\ (PositiveSecurityAccess(r) /\ ~Key) =>
               result = [kind |-> "ok", accepted |-> FALSE]
          /\ Negative => result = [kind |-> "nrc", sid |-> r[2], nrc |-> r[3]]
          /\ ~PositiveSecurityAccess(r) => result.kind # "ok"

\* C23 witness: 67 01 02 03 parsed for level 1 gave the seed 02 03
C23_Witness ==
  /\ call = [fn |-> "parseSecuritySeedResponse", bytes |-> <<103, 1, 2, 3>>,
             level |-> 1]
  /\ result = [kind |-> "ok", seed |-> <<2, 3>>]

\* C24: of the NRC bytes 0..255, isSecurityError holds exactly for 0x33,
\* 0x35, 0x36, 0x37, isLockedOut exactly for 0x36, 0x37 and isRetryable
\* exactly for 0x21, 0x22, 0x78; a locked-out NRC is a security error and no
\* NRC is both retryable and a security error
C24_NrcClassification ==
  call.fn = "classify" =>
    LET nrc == call.bytes[3] IN
    /\ result.kind = "nrc"
    /\ result.isSecurityError <=> nrc \in {51, 53, 54, 55}
    /\ result.isLockedOut <=> nrc \in {54, 55}
    /\ result.isRetryable <=> nrc \in {33, 34, 120}
    /\ result.isLockedOut => result.isSecurityError
    /\ ~(result.isRetryable /\ result.isSecurityError)

\* C24 witness: 7F 27 35 is a security error that is not a lockout
C24_Witness ==
  /\ call = [fn |-> "classify", bytes |-> <<127, 39, 53>>]
  /\ result = [kind |-> "nrc", isSecurityError |-> TRUE,
               isRetryable |-> FALSE, isLockedOut |-> FALSE]

(***************************************************************************)
(* GMLANEngine                                                             *)
(***************************************************************************)
\* the accumulator after the triples from idx on, n of them left: 0x00 ends
\* the run, one of the eleven opcodes is executed, any other byte is passed
RECURSIVE Accumulate(_, _, _, _)
Accumulate(table, idx, n, acc) ==
  IF n = 0 \/ table[idx + 1] = 0 THEN acc
  ELSE Accumulate(table, idx + 3, n - 1,
                  IF table[idx + 1] \in VALID_OPCODES
                    THEN Execute(table[idx + 1], acc, table[idx + 2],
                                 table[idx + 3])
                    ELSE acc)

\* the span of identity a lies in the table
InBounds(a, table) ==
  a * getTableFormat(Len(table)).stride
    + 3 * getTableFormat(Len(table)).opCount <= Len(table)

\* C25: getKey, in the application and in packages/core, never fails because
\* of an opcode value; for an identity in bounds an opcode byte outside the
\* eleven opcodes leaves the accumulator as it is and the next triple is
\* executed, and an opcode byte 0x00 ends the run with the accumulator as key
C25_OpcodesNeverFail ==
  call.fn \in {"getKey", "getKeyCore"} =>
    /\ result.kind # "INVALID_OPCODE"
    /\ (validateSeed(call.seed) /\ ~call.algo.half
        /\ call.algo.v \in 1..255 /\ InBounds(call.algo.v, Tables[call.table])
        /\ call.fn = "getKey") =>
         LET f == getTableFormat(Len(Tables[call.table])) IN
         result = [kind |-> "key",
                   key |-> Accumulate(Tables[call.table],
                                      call.algo.v * f.stride, f.opCount,
                                      call.seed.v)]

\* C25 on the engine of the application alone
C25_ApplicationOpcodes == call.fn = "getKey" => C25_OpcodesNeverFail

\* the identities in bounds whose key for the seed of the call is the key
\* reverseEngineer was asked for
Yielding ==
  {i \in 0..255 :
     /\ i = 0 \/ InBounds(i, Tables[call.table])
     /\ ~call.targetKey.half
     /\ getKey(call.seed, Whole(i), Tables[call.table])
          = [kind |-> "key", key |-> call.targetKey.v]}

\* C26 as stated: reverseEngineer(seed, getKey(seed, i, table), table)
\* returns i, for every seed and every identity i whose span is in bounds
C26_RoundTrip ==
  call.fn = "reverseEngineer" => \A i \in Yielding : result.algo = i

\* C26, amended: for an identity i in 1..255 in bounds,
\* reverseEngineer(seed, getKey(seed, i, table), table) returns the lowest
\* identity in 1..i that yields the same key, and so i itself when no
\* identity in 1..i-1 yields it
C26_RoundTripToLowestAlias ==
  call.fn = "reverseEngineer" =>
    LET yielding == Yielding \ {0} IN
    \A i \in yielding :
      /\ result.algo \in yielding
      /\ result.algo <= i
      /\ (\A j \in yielding : j >= i) => result.algo = i

\* C26 witness: the key of identity 6 for seed 0xD435 in the table of nine
\* entries is also the key of identity 5, which reverseEngineer returned
C26_Witness ==
  /\ call = [fn |-> "reverseEngineer", seed |-> Whole(54325),
             targetKey |-> Whole(54326), table |-> 3]
  /\ Yielding = {5, 6}
  /\ result.algo = 5

\* C27: reverseEngineer(seed, knownKey, table) returns the lowest identity
\* in 1..255 inside the table bounds whose key for the seed is knownKey,
\* not-found exactly when there is none, and never identity 0
C27_LowestIdentityOrNotFound ==
  call.fn = "reverseEngineer" =>
    LET yielding == Yielding \ {0} IN
    /\ result.algo # 0
    /\ result.algo = NoAlgo <=> yielding = {}
    /\ yielding # {} =>
         /\ result.algo \in yielding
         /\ \A j \in yielding : result.algo <= j

\* C27 witness: the complement of seed 0xD435 is the key of identity 0 and of
\* identity 8 of the nine-entry table; reverseEngineer returned 8
C27_Witness ==
  /\ call = [fn |-> "reverseEngineer", seed |-> Whole(54325),
             targetKey |-> Whole(11210), table |-> 3]
  /\ Yielding = {0, 8}
  /\ result.algo = 8
  /\ result.sequence = <<[op |-> 42, hh |-> 0, ll |-> 0]>>

\* C28: for a valid seed bruteForceAll(seed, table) returns exactly one
\* entry (identity, key) for each identity in 0..255 for which getKey
\* succeeds, with the key getKey returns, and no other entry
C28_BruteForceComplete ==
  (call.fn = "bruteForceAll" /\ validateSeed(call.seed)) =>
    LET succeeding ==
          {i \in 0..255 :
             getKey(call.seed, Whole(i), Tables[call.table]).kind = "key"}
    IN /\ Len(result) = Cardinality(succeeding)
       /\ Range(result) =
            {[algo |-> i,
              key |-> getKey(call.seed, Whole(i), Tables[call.table]).key] :
               i \in succeeding}

\* C29: getKey fails with INVALID_SEED for a seed that is no integer in
\* [0, 0xFFFF]; otherwise with INVALID_ALGO for an identity that is no
\* integer in [0, 255]; otherwise with TABLE_BOUNDS for a non-zero identity
\* with identity * stride + 3 * opCount above the table length, (stride,
\* opCount) being (16, 5) for a length of 4096 or more divisible by 16 and
\* (13, 4) otherwise; a failing call returns no key, any other call does
C29_ValidationOrder ==
  call.fn = "getKey" =>
    LET n == Len(Tables[call.table])
        extended == n >= 4096 /\ n % 16 = 0
        stride == IF extended THEN 16 ELSE 13
        opCount == IF extended THEN 5 ELSE 4
        seedOk == ~call.seed.half /\ call.seed.v \in 0..65535
        algoOk == ~call.algo.half /\ call.algo.v \in 0..255
    IN IF ~seedOk THEN result = [kind |-> "INVALID_SEED"]
       ELSE IF ~algoOk THEN result = [kind |-> "INVALID_ALGO"]
       ELSE IF call.algo.v # 0 /\ call.algo.v * stride + 3 * opCount > n
         THEN result = [kind |-> "TABLE_BOUNDS"]
       ELSE result.kind = "key"

\* C29 witness: identity 5 of a table of 10 bytes is out of bounds
C29_Witness ==
  /\ call = [fn |-> "getKey", seed |-> Whole(54325), algo |-> Whole(5),
             table |-> 2]
  /\ Len(Tables[2]) = 10
  /\ result = [kind |-> "TABLE_BOUNDS"]

\* C30: for every seed s in [0, 0xFFFF] and every table, the empty one
\* included, getKey(s, 0, table) is 0xFFFF - s, the complement of s in 16
\* bits; and every key getKey returns lies in [0, 0xFFFF]
C30_IdentityZeroAndRange ==
  call.fn = "getKey" =>
    /\ (~call.seed.half /\ call.seed.v \in 0..65535 /\ call.algo = Whole(0))
         => result = [kind |-> "key", key |-> 65535 - call.seed.v]
    /\ result.kind = "key" => result.key \in 0..65535

\* C30 witness: the complement of 0xD435 is 0x2BCA, with no table
C30_Witness ==
  /\ call = [fn |-> "getKey", seed |-> Whole(54325), algo |-> Whole(0),
             table |-> 1]
  /\ Tables[1] = <<>>
  /\ result = [kind |-> "key", key |-> 11210]


\* a blob that passes every check of the parser for the identity asked for
ValidBlob(a) ==
  /\ ~a.half
  /\ a.v \in DOMAIN PASSWORD_MAP
  /\ LET b == PASSWORD_MAP[a.v]
     IN  /\ b.length = 62
         /\ b.prefix \in SA015_PREFIX
         /\ b.base64
         /\ b.rawLength = 44
         /\ b.digestMatches
         /\ (b.raw34 * 256) + b.raw35 = a.v

C32_SecurityAccessPhysical ==
  lastTx # NoTx =>
    /\ lastTx.sid = SECURITY_ACCESS =>
         lastTx.txId = lastTx.current /\ lastTx.txId # functionalHeader
    /\ (lastTx.sid # SECURITY_ACCESS /\ lastTx.mode = "functional"
        /\ ~lastTx.wrapped) =>
         lastTx.txId = functionalHeader


\* the set the call of applyFilters before call k was asked to apply; the
\* device starts without filters
LastApplied(k) == IF k = 1 THEN <<>> ELSE applies[k - 1].asked

OncePerProtocol(a) ==
  a.calls = <<[protocol |-> "can", filters |-> a.asked],
              [protocol |-> "iso15765", filters |-> a.asked]>>

C34_ProcessingOnlyWhileHeadInFlight ==
  isProcessing =>
    /\ commandQueue # <<>>
    /\ Pending(Head(commandQueue))
    /\ \E k \in DOMAIN txLog : txLog[k] = Head(commandQueue)

\* the step delivers the adapter's next answer and settles command i with it
ResolvedByAnswer(i) ==
  /\ answered' = answered + 1
  /\ Pending(i)
  /\ ~Pending(i)'

\* C35 as stated: an answer of the adapter resolves only the command that
\* caused it; the answer to a command that timed out or was cleared is not
\* used to resolve a command written after it
C35_AnswerToItsCommand ==
  [][\A i \in DOMAIN cmds :
       ResolvedByAnswer(i) => txLog[answered'] = i]_vars

\* the first frame has been handed to sendFrame and no flow control has been
\* taken yet
AwaitingFirstFlowControl ==
  /\ isoPc \in {"frame", "flowControl"}
  /\ Len(isoLog) = 1
  /\ isoLog[1].frame[1] \div 16 = 1

\* C36 as stated: a flow-control frame sent in reply to the first frame is
\* always observed by the sender's flow-control wait, whether it arrives
\* before or after the send command of the first frame completes
C36_FlowControlObserved ==
  [][AwaitingFirstFlowControl /\ FlowControlIn(rx').found
       => isoLog' = Append(isoLog, Fc)]_vars

\* C37 as stated: when the wrapped requests have all completed, overlapping
\* or not, requestHeader, responseFilters and responseIds equal the values
\* they had before the first one started
C37_RestoredAfterOverlap ==
  (\A c \in 1..MaxOverrides : overrides[c].stage = "done") =>
    /\ requestHeader = overrides[1].prevHeader
    /\ responseFilters = overrides[1].prevFilters
    /\ responseIds = overrides[1].prevIds

\* level is locked out in sts, the map of the records
LockedIn(sts, level) ==
  level \in DOMAIN sts /\ sts[level].lockoutRemaining > 0

\* the time from which canAttempt(level) allows again
WindowEnd(sts, level) ==
  sts[level].lastAttemptTime + sts[level].lockoutRemaining

\* C38 as stated: the end of a recorded lockout window moves later only by
\* a recordFailure with NRC 0x36 or 0x37 for that level; storeSeed and
\* recordFailure with another NRC do not postpone it
C38_WindowEndNotPostponed ==
  [][\A level \in RecordLevels :
       (/\ LockedIn(states, level)
        /\ LockedIn(states', level)
        /\ WindowEnd(states', level) > WindowEnd(states, level))
       => /\ call'.fn = "recordFailure"
          /\ call'.level = level
          /\ call'.arg \in {EXCEEDED_NUMBER_OF_ATTEMPTS,
                            REQUIRED_TIME_DELAY_NOT_EXPIRED}]_vars

\* getState(level) on the map sts
RecordOf(sts, level) == IF level \in DOMAIN sts THEN sts[level] ELSE NewState

\* a record as getState creates it: not unlocked, no failure, no lockout,
\* no seed
Fresh(st) ==
  /\ st.unlocked = FALSE
  /\ st.failedAttempts = 0
  /\ st.lockoutRemaining = 0
  /\ st.lastSeed = NoSeed

\* C40: recordSuccess, recordFailure, storeSeed, canAttempt and reset of one
\* level leave the record of every other level as it was; after reset(level)
\* getState(level) is a fresh record, after resetAll that of every level is;
\* recordSuccess(level) sets unlocked and zeroes failedAttempts and
\* lockoutRemaining
C40_IndependentRecords ==
  [][/\ call'.fn \in {"recordSuccess", "recordFailure", "storeSeed",
                      "canAttempt", "reset"} =>
          \A other \in RecordLevels \ {call'.level} :
            RecordOf(states', other) = RecordOf(states, other)
     /\ call'.fn = "reset" => Fresh(RecordOf(states', call'.level))
     /\ call'.fn = "resetAll" =>
          \A level \in RecordLevels : Fresh(RecordOf(states', level))
     /\ call'.fn = "recordSuccess" =>
          LET st == RecordOf(states', call'.level) IN
          /\ st.unlocked = TRUE
          /\ st.failedAttempts = 0
          /\ st.lockoutRemaining = 0]_vars

\* C40 witness: level 1 has just been reset while level 3 keeps a record
\* with failures, a lockout and a seed
C40_Witness ==
  /\ call = Op("reset", 1, 0)
  /\ 1 \notin DOMAIN states
  /\ 3 \in DOMAIN states
  /\ states[3].failedAttempts = 2
  /\ states[3].lockoutRemaining = SECURITY_LOCKOUT_DURATION
  /\ states[3].lastSeed # NoSeed

\* request i has been transmitted and its call has not returned or thrown
Polling(i) == i \in DOMAIN cmds /\ Pending(i)

\* C39 as stated: every send() of a raw request terminates, whatever the ECU
\* answers and however often it answers response pending: the poll ends and
\* the call returns a response or fails with a timeout
C39_SendTerminates ==
  \A i \in 1..MaxCmds : Polling(i) ~> ~Polling(i)

====
